---- MODULE Spec2Model ----
(***************************************************************************)
(* A model of the CSV analysis tool: DataProcessor (src/data_processor.py), *)
(* DataEmbedder (src/data_embedder.py), ModelManager                        *)
(* (src/models/model_manager.py) and ConversationHandler                    *)
(* (src/conversation_handler.py).                                           *)
(*                                                                          *)
(* Text that the code inspects character by character (column names,        *)
(* backend answers, metadata values) is a sequence of one-character         *)
(* strings.  Floating point values are exact rationals.                     *)
(***************************************************************************)
EXTENDS Integers, Sequences, FiniteSets, TLC

VARIABLES
    dp,             \* the DataProcessor object: df, date_column, numeric_columns, categorical_columns
    dpRet,          \* the last DataProcessor call: <<method, value returned>>, and the file of load_data
    store,          \* the records of the persistent collection: [id, document, metadata]
    file_metadata,  \* DataEmbedder.file_metadata: file id -> [source_name, num_rows, columns]
    file_hashes,    \* DataEmbedder.file_hashes: source name -> content hash
    addCalls,       \* the collection.add calls of the last embed_data call, in order
    embRet,         \* the last value returned by a DataEmbedder method: <<method, value, ...>>
    mm,             \* the ModelManager object: current_model, clients
    ch_model,       \* ConversationHandler.current_model
    lastProbe,      \* the probe made by the last registry operation: <<name, outcome>> or None
    regRet,         \* the last value returned by a registry operation: <<method, argument, value>>
    valRet,         \* the _validate_response call under check: its arguments and the value returned
    queryRet,       \* the last query_data or process_query call: its inputs, the value returned and the calls made
    session         \* st.session_state of the app: initialized, data_processors (its keys), uploaded_files,
                    \* current_file, messages (their roles), and the handler that ran last

procVars == <<dp, dpRet>>
embVars == <<store, file_metadata, file_hashes, addCalls, embRet>>
regVars == <<mm, ch_model, lastProbe, regRet>>
chVars == <<valRet, queryRet, session>>

vars == <<dp, dpRet, store, file_metadata, file_hashes, addCalls, embRet,
          mm, ch_model, lastProbe, regRet, valRet, queryRet, session>>

(***************************************************************************)
(* Generic helpers                                                          *)
(***************************************************************************)
None == <<"None">>

RECURSIVE SeqSum(_)
SeqSum(s) == IF s = <<>> THEN 0 ELSE Head(s) + SeqSum(Tail(s))

RECURSIVE SeqMax(_)
SeqMax(s) == IF Len(s) = 1 THEN s[1]
             ELSE LET m == SeqMax(Tail(s)) IN IF s[1] >= m THEN s[1] ELSE m

RECURSIVE SeqMin(_)
SeqMin(s) == IF Len(s) = 1 THEN s[1]
             ELSE LET m == SeqMin(Tail(s)) IN IF s[1] <= m THEN s[1] ELSE m

RECURSIVE GCD(_, _)
GCD(a, b) == IF b = 0 THEN a ELSE GCD(b, a % b)

Abs(n) == IF n < 0 THEN -n ELSE n

IndexOf(s, x) == CHOOSE i \in 1..Len(s) : s[i] = x /\ \A j \in 1..(i - 1) : s[j] # x

Contains(s, x) == \E i \in 1..Len(s) : s[i] = x

(***************************************************************************)
(* Text: str.lower() and the substring test `term in text`                  *)
(***************************************************************************)
UpperToLower ==
    [c \in {"A", "B", "C", "D", "E", "I", "M", "N", "O", "P", "R", "S", "T", "U", "V"} |->
        CASE c = "A" -> "a" [] c = "B" -> "b" [] c = "C" -> "c" [] c = "D" -> "d"
          [] c = "E" -> "e" [] c = "I" -> "i" [] c = "M" -> "m" [] c = "N" -> "n"
          [] c = "O" -> "o" [] c = "P" -> "p" [] c = "R" -> "r" [] c = "S" -> "s"
          [] c = "T" -> "t" [] c = "U" -> "u" [] c = "V" -> "v"]

LowerChar(c) == IF c \in DOMAIN UpperToLower THEN UpperToLower[c] ELSE c

Lower(text) == [i \in 1..Len(text) |-> LowerChar(text[i])]

IsSubstring(term, text) ==
    \E i \in 0..(Len(text) - Len(term)) :
        \A j \in 1..Len(term) : text[i + j] = term[j]

\* the monetary vocabulary of get_summary_metrics
MonetaryTerms ==
    { <<"b", "u", "d", "g", "e", "t">>, <<"a", "m", "o", "u", "n", "t">>,
      <<"c", "o", "s", "t">>, <<"p", "r", "i", "c", "e">>,
      <<"r", "e", "v", "e", "n", "u", "e">> }

IsMonetary(col) == \E term \in MonetaryTerms : IsSubstring(term, Lower(col))

(***************************************************************************)
(* DataProcessor (src/data_processor.py)                                    *)
(*                                                                          *)
(* A cell of a raw CSV column is <<"num", n>> (numeric text), <<"str", s>>  *)
(* (text that parses neither as a number nor as a date), <<"date", ymd>>    *)
(* (text that parses as the calendar date ymd = <<y, m, d>>) or NaN (an     *)
(* empty field).  A data frame is [cols, dtypes, rows]: the column names in *)
(* order, the dtype of each column and the rows, each a sequence of cells   *)
(* in column order.                                                         *)
(***************************************************************************)
NaN == <<"nan", 0>>
NaT == <<"nat", 0>>
Num(n) == <<"num", n>>
Str(s) == <<"str", s>>
Date(y, m, d) == <<"date", <<y, m, d>>>>
Timestamp(ymd) == <<"ts", ymd>>

IsNum(cell) == cell[1] = "num"

\* floats returned by the statistics: the rational n/d in lowest terms, d = 0 for nan
FNaN == <<"f", 0, 0>>
Float(n, d) ==
    IF d = 0 THEN FNaN
    ELSE LET g == GCD(Abs(n), d) IN <<"f", n \div g, d \div g>>

ColIndex(df, col) == IndexOf(df.cols, col)
HasColumn(df, col) == Contains(df.cols, col)
Column(df, col) == [r \in 1..Len(df.rows) |-> df.rows[r][ColIndex(df, col)]]
DtypeOf(df, col) == df.dtypes[ColIndex(df, col)]

\* pandas.api.types.is_numeric_dtype(df[col])
is_numeric_dtype(df, col) == DtypeOf(df, col) = "numeric"

\* pd.read_csv: the dtype pandas infers for a parsed column
InferDtype(cells) ==
    IF Len(cells) = 0 THEN "object"
    ELSE IF \A i \in 1..Len(cells) : cells[i][1] \in {"num", "nan"} THEN "numeric"
    ELSE "object"

read_csv(file) ==
    [cols |-> file.cols,
     dtypes |-> [c \in 1..Len(file.cols) |->
                    InferDtype([r \in 1..Len(file.rows) |-> file.rows[r][c]])],
     rows |-> file.rows]

\* pd.to_datetime(df[col]) returns instead of raising: a numeric column is read
\* as nanoseconds since the epoch, an object column needs every non-empty
\* value to parse as a date
to_datetime_ok(df, col) ==
    \/ is_numeric_dtype(df, col)
    \/ \A r \in 1..Len(df.rows) : Column(df, col)[r][1] \in {"date", "nan"}

\* pd.to_datetime on one value
to_datetime(cell) ==
    CASE cell[1] = "date" -> Timestamp(cell[2])
      [] cell[1] = "num" -> Timestamp(<<1970, 1, 1>>)
      [] OTHER -> NaT

\* self.df is None is has_df = FALSE, df then holding EmptyFrame
EmptyFrame == [cols |-> <<>>, dtypes |-> <<>>, rows |-> <<>>]

\* DataProcessor.__init__
DataProcessorInit ==
    [has_df |-> FALSE, df |-> EmptyFrame, date_column |-> None,
     numeric_columns |-> <<>>, categorical_columns |-> <<>>]

\* the first loop of _infer_column_types: the first column, in column order,
\* that pd.to_datetime accepts
FirstDateColumn(df) ==
    IF \E i \in 1..Len(df.cols) : to_datetime_ok(df, df.cols[i])
    THEN df.cols[CHOOSE i \in 1..Len(df.cols) :
                    /\ to_datetime_ok(df, df.cols[i])
                    /\ \A j \in 1..(i - 1) : ~to_datetime_ok(df, df.cols[j])]
    ELSE None

\* DataProcessor._infer_column_types, mutated: the date column is classified
\* like every other column
_infer_column_types_with_date(df) ==
    [date_column |-> FirstDateColumn(df),
     numeric_columns |-> SelectSeq(df.cols, LAMBDA c : is_numeric_dtype(df, c)),
     categorical_columns |-> SelectSeq(df.cols, LAMBDA c : ~is_numeric_dtype(df, c))]

\* DataProcessor._infer_column_types: the three attributes it sets.  The final
\* pd.to_numeric(errors="coerce") acts on columns that are numeric already
\* and changes no value.
_infer_column_types(df) ==
    LET date_column == FirstDateColumn(df) IN
    [date_column |-> date_column,
     numeric_columns |->
        SelectSeq(df.cols, LAMBDA c : c # date_column /\ is_numeric_dtype(df, c)),
     categorical_columns |->
        SelectSeq(df.cols, LAMBDA c : c # date_column /\ ~is_numeric_dtype(df, c))]

\* df[name] = values
SetColumn(df, name, dtype, values) ==
    IF HasColumn(df, name)
    THEN LET c == ColIndex(df, name) IN
         [cols |-> df.cols,
          dtypes |-> [df.dtypes EXCEPT ![c] = dtype],
          rows |-> [r \in 1..Len(df.rows) |-> [df.rows[r] EXCEPT ![c] = values[r]]]]
    ELSE [cols |-> Append(df.cols, name),
          dtypes |-> Append(df.dtypes, dtype),
          rows |-> [r \in 1..Len(df.rows) |-> Append(df.rows[r], values[r])]]

ColYear == <<"y", "e", "a", "r">>
ColMonth == <<"m", "o", "n", "t", "h">>
ColQuarter == <<"q", "u", "a", "r", "t", "e", "r">>

DtYear(ts) == IF ts[1] = "ts" THEN Num(ts[2][1]) ELSE NaN
DtMonth(ts) == IF ts[1] = "ts" THEN Num(ts[2][2]) ELSE NaN
DtQuarter(ts) == IF ts[1] = "ts" THEN Num(((ts[2][2] - 1) \div 3) + 1) ELSE NaN

\* DataProcessor._process_dates
_process_dates(df, date_column) ==
    IF date_column = None THEN df
    ELSE LET n == Len(df.rows)
             stamps == [r \in 1..n |-> to_datetime(Column(df, date_column)[r])]
             d0 == SetColumn(df, date_column, "datetime", stamps)
             d1 == SetColumn(d0, ColYear, "numeric", [r \in 1..n |-> DtYear(stamps[r])])
             d2 == SetColumn(d1, ColMonth, "numeric", [r \in 1..n |-> DtMonth(stamps[r])])
         IN SetColumn(d2, ColQuarter, "numeric", [r \in 1..n |-> DtQuarter(stamps[r])])

\* DataProcessor.load_data, mutated: the column lists of the load before are
\* kept and added to
load_data_accumulating(file) ==
    LET df == read_csv(file)
        t == _infer_column_types(df)
    IN [has_df |-> TRUE,
        df |-> _process_dates(df, t.date_column),
        date_column |-> t.date_column,
        numeric_columns |-> dp.numeric_columns \o t.numeric_columns,
        categorical_columns |-> dp.categorical_columns \o t.categorical_columns]

\* DataProcessor.load_data on a file pd.read_csv can parse: the new object state
load_data(file) ==
    LET df == read_csv(file)
        t == _infer_column_types(df)
    IN [has_df |-> TRUE,
        df |-> _process_dates(df, t.date_column),
        date_column |-> t.date_column,
        numeric_columns |-> t.numeric_columns,
        categorical_columns |-> t.categorical_columns]


ColProjectId == <<"p", "r", "o", "j", "e", "c", "t", "_", "i", "d">>

\* the sort order of group keys: numbers by value, text in lexicographic order
TextOrder == <<"P1", "P2", "P3">>
KeyLess(a, b) ==
    IF a[1] = "num" /\ b[1] = "num" THEN a[2] < b[2]
    ELSE IF a[1] = "str" /\ b[1] = "str" THEN IndexOf(TextOrder, a[2]) < IndexOf(TextOrder, b[2])
    ELSE IF a[1] = "ts" /\ b[1] = "ts"
         THEN \/ a[2][1] < b[2][1]
              \/ a[2][1] = b[2][1] /\ a[2][2] < b[2][2]
              \/ a[2][1] = b[2][1] /\ a[2][2] = b[2][2] /\ a[2][3] < b[2][3]
    ELSE a[1] = "num" \/ (a[1] = "ts" /\ b[1] = "str")

\* the keys of df.groupby(by): the distinct values of the column, sorted, a
\* missing key dropped
GroupKeys(df, by) ==
    LET ks == {Column(df, by)[r] : r \in 1..Len(df.rows)} \ {NaN, NaT} IN
    CHOOSE s \in [1..Cardinality(ks) -> ks] :
        \A i, j \in 1..Cardinality(ks) : i < j => KeyLess(s[i], s[j])

RECURSIVE SumSkipNa(_)
\* Series.sum(): missing values are skipped, the empty sum is 0
SumSkipNa(cells) ==
    IF cells = <<>> THEN 0
    ELSE (IF IsNum(Head(cells)) THEN Head(cells)[2] ELSE 0) + SumSkipNa(Tail(cells))

\* df.groupby(by)[col].sum().reset_index()[col]
GroupSum(df, by, col) ==
    LET keys == GroupKeys(df, by) IN
    [k \in 1..Len(keys) |->
        Num(SumSkipNa(SelectSeq(
            [r \in 1..Len(df.rows) |->
                IF Column(df, by)[r] = keys[k] THEN Column(df, col)[r] ELSE NaN],
            IsNum)))]

\* DataProcessor._aggregate_by_project, mutated: the raw column whether or not
\* a project_id column is present
_aggregate_by_project_raw(df, col) == Column(df, col)

\* DataProcessor._aggregate_by_project
_aggregate_by_project(df, col) ==
    IF HasColumn(df, ColProjectId)
    THEN GroupSum(df, ColProjectId, col)
    ELSE Column(df, col)

\* Series.sum(), .mean(), .max(), .min() as floats
SeriesValues(series) ==
    LET nums == SelectSeq(series, IsNum) IN [i \in 1..Len(nums) |-> nums[i][2]]
SeriesSum(series) == Float(SeqSum(SeriesValues(series)), 1)
SeriesMean(series) ==
    Float(SeqSum(SeriesValues(series)), Len(SeriesValues(series)))
SeriesMax(series) ==
    IF SeriesValues(series) = <<>> THEN FNaN ELSE Float(SeqMax(SeriesValues(series)), 1)
SeriesMin(series) ==
    IF SeriesValues(series) = <<>> THEN FNaN ELSE Float(SeqMin(SeriesValues(series)), 1)

StatNames == {"total", "average", "max", "min"}

\* DataProcessor.get_summary_metrics: the mapping from <<stat, col>>, standing
\* for the key "<stat>_<col>", to its value
get_summary_metrics(p) ==
    IF ~p.has_df THEN <<>>
    ELSE LET cols == {p.numeric_columns[i] : i \in 1..Len(p.numeric_columns)}
             series(col) == IF IsMonetary(col)
                            THEN _aggregate_by_project(p.df, col)
                            ELSE Column(p.df, col)
         IN [k \in StatNames \X cols |->
                CASE k[1] = "total" -> SeriesSum(series(k[2]))
                  [] k[1] = "average" -> SeriesMean(series(k[2]))
                  [] k[1] = "max" -> SeriesMax(series(k[2]))
                  [] k[1] = "min" -> SeriesMin(series(k[2]))]

\* the dict of the four statistics of a series
SeriesMetrics(series) ==
    [total |-> SeriesSum(series), average |-> SeriesMean(series),
     max |-> SeriesMax(series), min |-> SeriesMin(series)]

\* DataProcessor.prepare_data_context, mutated: the raw column is used
prepare_data_context_raw(p) ==
    [total_rows |-> Len(p.df.rows),
     columns |-> p.df.cols,
     metrics |->
        [col \in {c \in {p.numeric_columns[i] : i \in 1..Len(p.numeric_columns)} :
                     IsMonetary(c)} |->
            SeriesMetrics(Column(p.df, col))]]

\* DataProcessor.prepare_data_context on a loaded processor: total_rows,
\* columns, and under metrics the entries "<col>_metrics" by col
prepare_data_context(p) ==
    [total_rows |-> Len(p.df.rows),
     columns |-> p.df.cols,
     metrics |->
        [col \in {c \in {p.numeric_columns[i] : i \in 1..Len(p.numeric_columns)} :
                     IsMonetary(c)} |->
            SeriesMetrics(_aggregate_by_project(p.df, col))]]

\* DataProcessor.get_aggregated_data(column) on a loaded processor, called
\* without group_by: None for an unknown column, else the series
get_aggregated_data(p, column) ==
    IF ~HasColumn(p.df, column) THEN None
    ELSE IF IsMonetary(column) THEN _aggregate_by_project(p.df, column)
    ELSE Column(p.df, column)

(***************************************************************************)
(* The CSV files the processor is run on                                    *)
(***************************************************************************)
MaxRows == 2

ColDate == <<"d", "a", "t", "e">>
ColAmount == <<"a", "m", "o", "u", "n", "t">>
ColTotalCost == <<"T", "o", "t", "a", "l", "_", "C", "o", "s", "t">>
ColQuantity == <<"q", "u", "a", "n", "t", "i", "t", "y">>

\* a schema is the column names and, per column, the values a field may hold
Schemas ==
    { [cols |-> <<ColDate, ColAmount, ColProjectId>>,
       doms |-> <<{Date(2024, 3, 15)}, {Num(50), Num(100)},
                  {Str("P1"), Str("P2"), NaN}>>],
      [cols |-> <<ColDate, ColTotalCost, ColQuantity, ColProjectId>>,
       doms |-> <<{Date(2024, 11, 5)}, {Num(100)}, {Num(1), Num(2)},
                  {Str("P1"), Str("P2")}>>],
      [cols |-> <<ColDate, ColAmount>>,
       doms |-> <<{Date(2024, 3, 15), Str("n/a")}, {Num(50), NaN}>>],
      [cols |-> <<ColAmount, ColProjectId>>,
       doms |-> <<{Num(50), Num(100)}, {Str("P1"), Str("P2")}>>],
      [cols |-> <<ColProjectId, ColDate>>,
       doms |-> <<{Str("P1")}, {Date(2024, 3, 15), Str("n/a")}>>] }

SchemaRows(sc) ==
    {row \in [1..Len(sc.cols) -> UNION {sc.doms[i] : i \in 1..Len(sc.cols)}] :
        \A i \in 1..Len(sc.cols) : row[i] \in sc.doms[i]}

\* the files pd.read_csv parses, and one it raises on
Files ==
    UNION { { [parses |-> TRUE, cols |-> sc.cols, rows |-> rows] :
                rows \in UNION {[1..n -> SchemaRows(sc)] : n \in 0..MaxRows} } :
            sc \in Schemas }
MalformedFile == [parses |-> FALSE, cols |-> <<>>, rows |-> <<>>]

(***************************************************************************)
(* DataEmbedder (src/data_embedder.py)                                      *)
(*                                                                          *)
(* The data frame handed to embed_data is [cols, rows]: the column names    *)
(* and, per row, the text str(val) of each column's value as               *)
(* _prepare_batch_data stores it.  The index of a frame read by read_csv is *)
(* 0..n-1.  A cell of a datetime64 column is Timestamp(<<y, m, d>>),        *)
(* midnight of that calendar date, or NaT.                                  *)
(***************************************************************************)
batch_size == 100

Digits == <<"0", "1", "2", "3", "4", "5", "6", "7", "8", "9">>

\* str(n) for a non-negative integer
RECURSIVE IntToText(_)
IntToText(n) ==
    IF n < 10 THEN <<Digits[n + 1]>>
    ELSE Append(IntToText(n \div 10), Digits[(n % 10) + 1])

Min(a, b) == IF a <= b THEN a ELSE b

\* DataEmbedder._calculate_file_hash: SHA-256 over the per-row hashes of
\* pd.util.hash_pandas_object, which cover each row's index and values and
\* not the column names; a digest stands for the byte string it was computed from
_calculate_file_hash(df) ==
    <<"sha256", [i \in 1..Len(df.rows) |-> <<i - 1, df.rows[i]>>]>>

\* DataEmbedder._is_file_embedded, mutated: never recognised
_is_file_embedded_never(hashes, df, source_name) == FALSE

\* DataEmbedder._is_file_embedded
_is_file_embedded(hashes, df, source_name) ==
    /\ source_name \in DOMAIN hashes
    /\ hashes[source_name] = _calculate_file_hash(df)

IsTimestamp(cell) == Len(cell) = 2 /\ cell[1] = "ts"

\* the decimal digits of n, zero-padded on the left to at least width characters
RECURSIVE ZeroPad(_, _)
ZeroPad(text, width) ==
    IF Len(text) >= width THEN text ELSE ZeroPad(<<"0">> \o text, width)

\* Timestamp.strftime('%Y-%m-%d'), mutated: month and day are not padded
strftime_unpadded(ts) ==
    ZeroPad(IntToText(ts[2][1]), 4) \o <<"-">> \o IntToText(ts[2][2])
        \o <<"-">> \o IntToText(ts[2][3])

\* Timestamp.strftime('%Y-%m-%d')
strftime(ts) ==
    ZeroPad(IntToText(ts[2][1]), 4) \o <<"-">> \o ZeroPad(IntToText(ts[2][2]), 2)
        \o <<"-">> \o ZeroPad(IntToText(ts[2][3]), 2)

\* Timestamp.isoformat() of a midnight timestamp
isoformat(ts) == strftime(ts) \o <<"T", "0", "0", ":", "0", "0", ":", "0", "0">>

\* DataEmbedder._prepare_row_description: ", ".join(parts), one part per
\* column.  The part of a datetime64 column is the text f"on {strftime}";
\* the text of any other part is abstracted to the pair it is built from
_prepare_row_description(cols, row) ==
    [c \in 1..Len(cols) |->
        IF IsTimestamp(row[c]) THEN <<"o", "n", " ">> \o strftime(row[c])
        ELSE <<cols[c], row[c]>>]

\* NaT.strftime raises ValueError: the first iteration of embed_data's loop
\* whose _prepare_batch_data raises, 0 when none does
PrepareRaisesAt(df) ==
    LET bad == {i \in 1..Len(df.rows) : Contains(df.rows[i], NaT)} IN
    IF bad = {} THEN 0
    ELSE ((CHOOSE i \in bad : \A j \in bad : i <= j) - 1) \div batch_size + 1

\* the metadata dict of one row: file_id and source_name, then every column,
\* a column of the same name overwriting
RowMetadata(cols, row, file_id, source_name) ==
    LET keys == {"file_id", "source_name"} \cup {cols[c] : c \in 1..Len(cols)} IN
    [k \in keys |->
        IF Contains(cols, k)
        THEN LET val == row[CHOOSE c \in 1..Len(cols) :
                                cols[c] = k /\ \A d \in (c + 1)..Len(cols) : cols[d] # k]
             IN IF IsTimestamp(val) THEN isoformat(val) ELSE val
        ELSE IF k = "file_id" THEN file_id ELSE source_name]

\* the id f"file_{file_id}_row_{idx}", as the pair it is formatted from
RowId(file_id, idx) == <<file_id, idx>>

\* DataEmbedder._prepare_batch_data on the rows start_idx..end_idx-1 of df:
\* the records handed to collection.add, in row order
_prepare_batch_data(df, start_idx, end_idx, file_id, source_name) ==
    [i \in 1..(end_idx - start_idx) |->
        [id |-> RowId(file_id, start_idx + i - 1),
         document |-> _prepare_row_description(df.cols, df.rows[start_idx + i]),
         metadata |-> RowMetadata(df.cols, df.rows[start_idx + i], file_id, source_name)]]

\* the number of iterations, mutated: a last batch of fewer than batch_size
\* rows is left out
NumBatches_full_only(df) == Len(df.rows) \div batch_size

\* the number of iterations of range(0, len(df), batch_size)
NumBatches(df) == (Len(df.rows) + batch_size - 1) \div batch_size

\* the batch of iteration k = 1, 2, ...
Batch(df, k, file_id, source_name) ==
    LET start_idx == (k - 1) * batch_size
        end_idx == Min(start_idx + batch_size, Len(df.rows))
    IN _prepare_batch_data(df, start_idx, end_idx, file_id, source_name)

\* collection.add, mutated: the batch replaces what the collection held
CollectionAdd_replacing(records, batch) ==
    {batch[i] : i \in 1..Len(batch)}

\* collection.add(documents, metadatas, ids) when it returns: the collection
\* is keyed by id, and a record whose id the collection already holds is
\* not added
CollectionAdd(records, batch) ==
    records \cup {batch[i] : i \in {j \in 1..Len(batch) :
                                        \A r \in records : r.id # batch[j].id}}

RECURSIVE AddBatches(_, _, _, _, _)
\* the store after the add calls of iterations k..last returned
AddBatches(records, df, k, last, ids) ==
    IF k > last THEN records
    ELSE AddBatches(CollectionAdd(records, Batch(df, k, ids[1], ids[2])), df, k + 1, last, ids)

\* source_name or f"dataset_{file_id}"
EffectiveSourceName(source_name, file_id) ==
    IF source_name = None \/ source_name = <<>>
    THEN <<"d", "a", "t", "a", "s", "e", "t", "_">> \o file_id
    ELSE source_name

\* DataEmbedder.__init__ over an empty persistent directory
EmbedderInit ==
    [store |-> {}, file_metadata |-> <<>>, file_hashes |-> <<>>]

\* the collection.add calls embed_data makes when the call of iteration failAt
\* raises (failAt = 0: none raises): the ids each carried and whether it raised
AddCallLog(df, failAt, file_id) ==
    LET last == IF failAt = 0 THEN NumBatches(df) ELSE failAt IN
    [k \in 1..last |->
        [ids |-> [i \in 1..(Min(k * batch_size, Len(df.rows)) - (k - 1) * batch_size) |->
                    RowId(file_id, (k - 1) * batch_size + i - 1)],
         raised |-> (k = failAt)]]

\* DataEmbedder.embed_data, mutated: a failed call rolls the store back
embed_data_rollback(e, df, source_name_arg, failAt) ==
    LET file_id == IntToText(Cardinality(DOMAIN e.file_metadata))
        source_name == EffectiveSourceName(source_name_arg, file_id)
        nat == PrepareRaisesAt(df)
        unprepared == nat # 0 /\ (failAt = 0 \/ nat <= failAt)
        sent == IF unprepared THEN nat - 1
                ELSE IF failAt = 0 THEN NumBatches(df) ELSE failAt - 1
    IN IF _is_file_embedded(e.file_hashes, df, source_name)
       THEN [store |-> e.store, file_metadata |-> e.file_metadata,
             file_hashes |-> e.file_hashes, addCalls |-> <<>>, ret |-> TRUE]
       ELSE [store |-> IF failAt = 0 /\ ~unprepared
                        THEN AddBatches(e.store, df, 1, sent, <<file_id, source_name>>)
                        ELSE e.store,
             file_metadata |->
                (file_id :> [source_name |-> source_name, num_rows |-> Len(df.rows),
                             columns |-> df.cols]) @@ e.file_metadata,
             file_hashes |->
                (source_name :> _calculate_file_hash(df)) @@ e.file_hashes,
             addCalls |-> IF unprepared THEN SubSeq(AddCallLog(df, 0, file_id), 1, sent)
                          ELSE AddCallLog(df, failAt, file_id),
             ret |-> (failAt = 0 /\ ~unprepared)]

\* DataEmbedder.embed_data(df, column_info, source_name) on the embedder e,
\* the add call of iteration failAt raising (0: none): the embedder after the
\* call, the add calls made and the value returned.  The loop ends at the
\* first iteration in which preparing the batch or adding it raises.
embed_data(e, df, source_name_arg, failAt) ==
    LET file_id == IntToText(Cardinality(DOMAIN e.file_metadata))
        source_name == EffectiveSourceName(source_name_arg, file_id)
        nat == PrepareRaisesAt(df)
        unprepared == nat # 0 /\ (failAt = 0 \/ nat <= failAt)
        sent == IF unprepared THEN nat - 1
                ELSE IF failAt = 0 THEN NumBatches(df) ELSE failAt - 1
    IN IF _is_file_embedded(e.file_hashes, df, source_name)
       THEN [store |-> e.store, file_metadata |-> e.file_metadata,
             file_hashes |-> e.file_hashes, addCalls |-> <<>>, ret |-> TRUE]
       ELSE [store |-> AddBatches(e.store, df, 1, sent, <<file_id, source_name>>),
             file_metadata |->
                (file_id :> [source_name |-> source_name, num_rows |-> Len(df.rows),
                             columns |-> df.cols]) @@ e.file_metadata,
             file_hashes |->
                (source_name :> _calculate_file_hash(df)) @@ e.file_hashes,
             addCalls |-> IF unprepared THEN SubSeq(AddCallLog(df, 0, file_id), 1, sent)
                          ELSE AddCallLog(df, failAt, file_id),
             ret |-> (failAt = 0 /\ ~unprepared)]

\* DataEmbedder.clear_data(), mutated: the hash tracking is kept
clear_data_keeps_hashes(e, deleted) ==
    IF deleted
    THEN [store |-> {}, file_metadata |-> <<>>, file_hashes |-> e.file_hashes, ret |-> TRUE]
    ELSE [store |-> e.store, file_metadata |-> e.file_metadata,
          file_hashes |-> e.file_hashes, ret |-> FALSE]

\* DataEmbedder.clear_data(): collection.delete(where={}) returns (deleted) or raises
clear_data(e, deleted) ==
    IF deleted
    THEN [store |-> {}, file_metadata |-> <<>>, file_hashes |-> <<>>, ret |-> TRUE]
    ELSE [store |-> e.store, file_metadata |-> e.file_metadata,
          file_hashes |-> e.file_hashes, ret |-> FALSE]

Embedder == [store |-> store, file_metadata |-> file_metadata, file_hashes |-> file_hashes]

\* DataEmbedder._get_default_response
_get_default_response ==
    [documents |-> <<<<>>>>, metadatas |-> <<<<>>>>, distances |-> <<<<>>>>, ids |-> <<<<>>>>]

required_fields == {"documents", "metadatas", "distances"}

\* Python truth of a value <<tag, payload>> returned by collection.query: None,
\* the empty dict and the empty list are false
Truthy(value) ==
    CASE value[1] = "None" -> FALSE
      [] value[1] = "dict" -> DOMAIN value[2] # {}
      [] value[1] = "list" -> value[2] # <<>>
      [] OTHER -> TRUE

\* DataEmbedder.query_data, mutated: the field check is skipped
query_data_unchecked(outcome) ==
    IF outcome.kind = "return" /\ outcome.value[1] = "dict"
    THEN outcome.value[2]
    ELSE _get_default_response

\* DataEmbedder.query_data given what collection.query does: the collection
\* attribute is missing, the call raises, or it returns a value
query_data(outcome) ==
    IF outcome.kind = "no_collection" THEN _get_default_response
    ELSE IF outcome.kind = "raise" THEN _get_default_response
    ELSE IF ~Truthy(outcome.value) \/ outcome.value[1] # "dict" THEN _get_default_response
    ELSE IF ~(\A field \in required_fields : field \in DOMAIN outcome.value[2])
         THEN _get_default_response
    ELSE outcome.value[2]

(***************************************************************************)
(* ModelManager (src/models/model_manager.py) and the model selection of    *)
(* ConversationHandler (src/conversation_handler.py)                        *)
(*                                                                          *)
(* A probe (a chat completion with a test message) ends "ok" (a response    *)
(* with choices), "no_choices" or "raise".  clients maps a backend name to  *)
(* Client(name) or None; a name may have no entry.                          *)
(***************************************************************************)
OpenAIGPT4 == "OpenAI GPT-4"
LocalLlama == "Local Llama3.2"

\* Config.AVAILABLE_MODELS: name -> type
AVAILABLE_MODELS == (OpenAIGPT4 :> "openai") @@ (LocalLlama :> "ollama")

ProbeOutcomes == {"ok", "no_choices", "raise"}

Client(name) == <<"client", name>>

\* ModelManager._initialize_clients, mutated: the client of a probe without
\* choices is stored as well
_initialize_clients_unprobed(outcome) ==
    [name \in DOMAIN AVAILABLE_MODELS |->
        IF outcome[name] # "raise" THEN Client(name) ELSE None]

\* ModelManager._initialize_clients: the clients dict after the loop, given
\* the outcome of creating and probing each configured backend
_initialize_clients(outcome) ==
    [name \in {n \in DOMAIN AVAILABLE_MODELS : outcome[n] # "no_choices"} |->
        IF outcome[name] = "ok" THEN Client(name) ELSE None]

\* ModelManager.__init__
ModelManagerInit(outcome) ==
    [current_model |-> OpenAIGPT4, clients |-> _initialize_clients(outcome)]

fallback_model == OpenAIGPT4

\* ModelManager.get_available_models
get_available_models(m) ==
    {name \in DOMAIN m.clients : m.clients[name] # None}

\* dict.get(name): None when there is no entry
ClientsGet(m, name) ==
    IF name \in DOMAIN m.clients THEN m.clients[name] ELSE None

\* ModelManager._test_model returns (TRUE) or raises (FALSE), given the
\* outcome of its probe
_test_model(m, model_name, probe) ==
    /\ m.clients[model_name] # None
    /\ probe = "ok"

\* ModelManager.set_model, mutated: the membership test is dropped
mm_set_model_unchecked(m, model_name, probe) ==
    [current_model |-> IF probe = "ok" THEN model_name ELSE m.current_model,
     probed |-> TRUE,
     ret |-> IF probe = "ok"
             THEN <<TRUE, <<"Successfully switched to ", model_name>>>>
             ELSE <<FALSE, <<"Failed to switch to ", model_name>>>>]

\* ModelManager.set_model(model_name), its probe ending with `probe`: the new
\* current_model, whether the probe was made, and the value returned
mm_set_model(m, model_name, probe) ==
    IF model_name \notin DOMAIN m.clients
    THEN [current_model |-> m.current_model, probed |-> FALSE,
          ret |-> <<FALSE, <<"Model ", model_name, " not available">>>>]
    ELSE IF m.clients[model_name] = None
    THEN [current_model |-> m.current_model, probed |-> FALSE,
          ret |-> <<FALSE, <<"Model ", model_name, " failed to initialize">>>>]
    ELSE IF _test_model(m, model_name, probe)
    THEN [current_model |-> model_name, probed |-> TRUE,
          ret |-> <<TRUE, <<"Successfully switched to ", model_name>>>>]
    ELSE [current_model |-> m.current_model, probed |-> TRUE,
          ret |-> <<FALSE, <<"Failed to switch to ", model_name>>>>]

\* ModelManager.get_client, mutated: no fallback
get_client_no_fallback(m, model_name) ==
    ClientsGet(m, IF model_name = "" THEN m.current_model ELSE model_name)

\* ModelManager.get_client(model_name); the argument left out, None or empty
\* is ""
get_client(m, model_name) ==
    LET requested == IF model_name = "" THEN m.current_model ELSE model_name
        model == IF requested \notin DOMAIN m.clients THEN fallback_model ELSE requested
        client == ClientsGet(m, model)
    IN IF client = None /\ model # fallback_model
       THEN ClientsGet(m, fallback_model)
       ELSE client

\* ConversationHandler.__init__: the default model
ConversationHandlerInit == OpenAIGPT4

\* ConversationHandler.set_model(model_name): the new current_model and the
\* value returned
ch_set_model(m, current, model_name) ==
    IF model_name \notin get_available_models(m)
    THEN [current_model |-> current,
          ret |-> <<FALSE, <<"Model ", model_name, " not available">>>>]
    ELSE [current_model |-> model_name,
          ret |-> <<TRUE, <<"Switched to ", model_name>>>>]

\* the names set_model and get_client are called with: the configured ones and
\* one that is not configured
UnknownModel == "Claude"
ModelNames == DOMAIN AVAILABLE_MODELS \cup {UnknownModel}

(***************************************************************************)
(* collection.query: what the persistent collection may answer               *)
(***************************************************************************)
DEFAULT_N_RESULTS == 5

\* the result dict of a query that ranks the records as in ranking: the
\* n_results nearest, one list per query text
QueryResult(ranking, n_results) ==
    LET n == Min(n_results, Len(ranking)) IN
    [ids |-> <<[i \in 1..n |-> ranking[i].id]>>,
     documents |-> <<[i \in 1..n |-> ranking[i].document]>>,
     metadatas |-> <<[i \in 1..n |-> ranking[i].metadata]>>,
     distances |-> <<[i \in 1..n |-> i]>>]

\* a dict without one field
Without(dict, field) == [k \in DOMAIN dict \ {field} |-> dict[k]]

\* the results a collection that does not keep its contract may return in
\* place of result: a field missing, lists of different lengths, a record
\* without document or without metadata
MalformedResults(result) ==
    {Without(result, "distances"), Without(result, "documents")} \cup
    (IF Len(result.documents[1]) = 0 THEN {}
     ELSE {[result EXCEPT !.metadatas[1] = SubSeq(@, 1, Len(@) - 1)],
           [result EXCEPT !.distances[1] = SubSeq(@, 1, Len(@) - 1)],
           [result EXCEPT !.documents[1][1] = <<>>],
           [result EXCEPT !.metadatas[1][1] = <<>>]})

\* the rows 0..n-1 of a file that are in the store, in row order
FileRanking(records, file_id, n) ==
    LET present == SelectSeq([i \in 1..n |-> RowId(file_id, i - 1)],
                             LAMBDA id : \E r \in records : r.id = id)
    IN [i \in 1..Len(present) |-> CHOOSE r \in records : r.id = present[i]]

Reverse(list) == [i \in 1..Len(list) |-> list[Len(list) + 1 - i]]

\* rankings of the records of a store by nearness to a query text: for each
\* file, one that puts its first rows first and one that puts them last first
StoreRankings(e) ==
    IF e.store = {} THEN {<<>>}
    ELSE UNION {{FileRanking(e.store, f, DEFAULT_N_RESULTS + 1),
                 Reverse(FileRanking(e.store, f, DEFAULT_N_RESULTS + 1))} :
                f \in {r.id[1] : r \in e.store}}

\* what collection.query does, for the rankings given: the collection
\* attribute is missing, the call raises, or it returns a value <<tag, payload>>
QueryOutcomes(rankings) ==
    {[kind |-> "no_collection"], [kind |-> "raise"]} \cup
    {[kind |-> "return", value |-> value] :
        value \in {<<"None", <<>>>>, <<"list", <<>>>>, <<"list", <<<<>>>>>>, <<"dict", <<>>>>} \cup
                  {<<"dict", QueryResult(ranking, DEFAULT_N_RESULTS)>> : ranking \in rankings} \cup
                  UNION {{<<"dict", result>> :
                            result \in MalformedResults(QueryResult(ranking, DEFAULT_N_RESULTS))} :
                         ranking \in rankings}}

(***************************************************************************)
(* The data frames the embedder is run on                                   *)
(***************************************************************************)
MaxFiles == 2

TxtA == <<"a", ".", "c", "s", "v">>
Txt50 == <<"5", "0", ".", "0">>
Txt100 == <<"1", "0", "0", ".", "0">>
TxtP1 == <<"P", "1">>

\* n rows, every row holding the same values
UniformFrame(cols, row, n) == [cols |-> cols, rows |-> [i \in 1..n |-> row]]

EmbedFrames ==
    { UniformFrame(<<"amount">>, <<Txt100>>, 0),
      [cols |-> <<"amount", "project_id">>, rows |-> << <<Txt100, TxtP1>> >>],
      [cols |-> <<"amount", "project_id">>, rows |-> << <<Txt100, TxtP1>>, <<Txt50, TxtP1>> >>],
      UniformFrame(<<"amount">>, <<Txt50>>, batch_size + 1),
      [cols |-> <<"date", "amount">>,
       rows |-> << <<Timestamp(<<2024, 3, 15>>), Txt100>>, <<Timestamp(<<2024, 11, 5>>), Txt50>> >>],
      [cols |-> <<"date", "amount">>, rows |-> << <<NaT, Txt100>> >>] }

SourceNames == {TxtA, None}

(***************************************************************************)
(* ConversationHandler: numeric validation of an answer                     *)
(* (src/conversation_handler.py)                                            *)
(*                                                                          *)
(* A number is <<n, e>>, the rational n / 10^e: float arithmetic is exact   *)
(* here, rounding of the products is not modelled.                          *)
(***************************************************************************)
DigitChars == {Digits[i] : i \in 1..10}
DigitVal(c) == (CHOOSE i \in 1..10 : Digits[i] = c) - 1

RECURSIVE Pow10(_)
Pow10(e) == IF e = 0 THEN 1 ELSE 10 * Pow10(e - 1)

\* a < b for numbers
NumLess(a, b) == a[1] * Pow10(b[2]) < b[1] * Pow10(a[2])

\* value > bound * 1.1, the numbers taken exactly
ExceedsMargin(value, bound) ==
    value[1] * Pow10(bound[2]) * 10 > bound[1] * 11 * Pow10(value[2])

\* str.replace(ch, ""): the characters of text other than ch
Remove(text, ch) == SelectSeq(text, LAMBDA c : c # ch)

\* the last index k >= j - 1 with text[j..k] all in chars
RECURSIVE RunEnd(_, _, _)
RunEnd(text, j, chars) ==
    IF j <= Len(text) /\ text[j] \in chars THEN RunEnd(text, j + 1, chars) ELSE j - 1

RECURSIVE DigitsValue(_)
DigitsValue(ds) ==
    IF ds = <<>> THEN 0 ELSE 10 * DigitsValue(SubSeq(ds, 1, Len(ds) - 1)) + DigitVal(ds[Len(ds)])

ParseError == <<"ValueError">>

\* float(text) for text of the form [+-]digits[.digits] (a digit on at least
\* one side of the point); ParseError for every other text over the
\* characters used here
ParseFloat(text) ==
    LET signed == Len(text) > 0 /\ text[1] \in {"-", "+"}
        body == IF signed THEN Tail(text) ELSE text
        dots == Len(SelectSeq(body, LAMBDA c : c = "."))
        digs == SelectSeq(body, LAMBDA c : c \in DigitChars)
        point == IF dots = 1 THEN CHOOSE i \in 1..Len(body) : body[i] = "." ELSE Len(body) + 1
    IN IF \/ Len(digs) = 0
          \/ dots > 1
          \/ Len(digs) + dots # Len(body)
       THEN ParseError
       ELSE << (IF signed /\ text[1] = "-" THEN -1 ELSE 1) * DigitsValue(digs),
               Len(body) - Min(point, Len(body)) >>

MoneyChars == DigitChars \cup {","}
PercentChars == DigitChars \cup {"."}

\* re.findall(r"\$?([\d,]+\.?\d*)", text) from position i on: the groups of
\* the successive leftmost matches
RECURSIVE FindMonetary(_, _)
FindMonetary(text, i) ==
    IF i > Len(text) THEN <<>>
    ELSE LET j == IF text[i] = "$" THEN i + 1 ELSE i
             k == RunEnd(text, j, MoneyChars)
             p == IF k + 1 <= Len(text) /\ text[k + 1] = "." THEN k + 1 ELSE k
             end == RunEnd(text, p + 1, DigitChars)
         IN IF k >= j
            THEN <<SubSeq(text, j, end)>> \o FindMonetary(text, end + 1)
            ELSE FindMonetary(text, i + 1)

\* re.findall(r"([\d.]+)%", text) from position i on
RECURSIVE FindPercent(_, _)
FindPercent(text, i) ==
    IF i > Len(text) THEN <<>>
    ELSE LET k == RunEnd(text, i, PercentChars) IN
         IF k >= i
         THEN IF k + 1 <= Len(text) /\ text[k + 1] = "%"
              THEN <<SubSeq(text, i, k)>> \o FindPercent(text, k + 2)
              ELSE FindPercent(text, k + 1)
         ELSE FindPercent(text, i + 1)

NoValues == [monetary |-> <<>>, percentages |-> <<>>]

\* ConversationHandler._extract_numeric_values, mutated: a token that is no
\* number is dropped and the others are kept
_extract_numeric_values_lenient(text) ==
    IF text = None THEN NoValues
    ELSE LET m == FindMonetary(text, 1)
             p == FindPercent(text, 1)
             ok(tokens) == SelectSeq(tokens, LAMBDA t : ParseFloat(t) # ParseError)
         IN [monetary |-> [i \in 1..Len(ok([j \in 1..Len(m) |-> Remove(m[j], ",")])) |->
                              ParseFloat(ok([j \in 1..Len(m) |-> Remove(m[j], ",")])[i])],
             percentages |-> [i \in 1..Len(ok(p)) |-> ParseFloat(ok(p)[i])]]

\* ConversationHandler._extract_numeric_values: the dict returned, a key that
\* is absent shown as the empty list; any exception (the text is None, a token
\* float() rejects) gives the empty dict
_extract_numeric_values(text) ==
    IF text = None THEN NoValues
    ELSE LET m == FindMonetary(text, 1)
             p == FindPercent(text, 1)
             mv == [i \in 1..Len(m) |-> ParseFloat(Remove(m[i], ","))]
             pv == [i \in 1..Len(p) |-> ParseFloat(p[i])]
         IN IF \/ \E i \in 1..Len(mv) : mv[i] = ParseError
               \/ \E i \in 1..Len(pv) : pv[i] = ParseError
            THEN NoValues
            ELSE [monetary |-> mv, percentages |-> pv]

\* a metadata mapping is true in Python when it is neither None nor empty
MetaTruthy(metadata) == DOMAIN metadata # {}

\* the value _validate_response reads from one metadata value: the number, or
\* ParseError when the text has no digit or float() rejects it
ContextNumber(value) ==
    IF \E i \in 1..Len(value) : value[i] \in DigitChars
    THEN ParseFloat(Remove(Remove(value, ","), "$"))
    ELSE ParseError

\* the dict context_values after the loop over the metadata of the retrieved
\* rows: per key, the number read from the last row that has one for the key
ContextValues(metas) ==
    LET has(i, k) == /\ MetaTruthy(metas[i])
                     /\ k \in DOMAIN metas[i]
                     /\ ContextNumber(metas[i][k]) # ParseError
        keys == {k \in UNION {DOMAIN metas[i] : i \in 1..Len(metas)} :
                    \E i \in 1..Len(metas) : has(i, k)}
    IN [k \in keys |->
          ContextNumber(metas[CHOOSE i \in 1..Len(metas) :
              has(i, k) /\ \A j \in (i + 1)..Len(metas) : ~has(j, k)][k])]

\* max(numbers) of a non-empty set
MaxNumber(numbers) == CHOOSE m \in numbers : \A x \in numbers : ~NumLess(m, x)

\* ConversationHandler._validate_response(response, context_data)
_validate_response(response, context_data) ==
    LET response_values == _extract_numeric_values(response)
        all == response_values.monetary \o response_values.percentages
        context_values == ContextValues(context_data.metadatas[1])
        numbers == {context_values[k] : k \in DOMAIN context_values}
    IN IF all = <<>> THEN TRUE
       ELSE IF Len(context_data.metadatas) = 0 THEN TRUE
       ELSE IF numbers = {} THEN TRUE
       ELSE ~(\E i \in 1..Len(all) : ExceedsMargin(all[i], MaxNumber(numbers)))

(***************************************************************************)
(* ConversationHandler.process_query (src/conversation_handler.py)          *)
(***************************************************************************)
\* the context entries of step 2, mutated: no pair is dropped
ContextEntries_keep_all(documents, metadatas) ==
    LET idx == SelectSeq([i \in 1..Len(documents) |-> i],
                         LAMBDA i : TRUE)
    IN [n \in 1..Len(idx) |->
          <<"From ",
            IF "source_name" \in DOMAIN metadatas[idx[n]]
            THEN metadatas[idx[n]].source_name ELSE "unknown source",
            ": ", documents[idx[n]]>>]

\* the context entries of step 2: one per (document, metadata) pair with both
\* true, in order
ContextEntries(documents, metadatas) ==
    LET idx == SelectSeq([i \in 1..Len(documents) |-> i],
                         LAMBDA i : documents[i] # <<>> /\ MetaTruthy(metadatas[i]))
    IN [n \in 1..Len(idx) |->
          <<"From ",
            IF "source_name" \in DOMAIN metadatas[idx[n]]
            THEN metadatas[idx[n]].source_name ELSE "unknown source",
            ": ", documents[idx[n]]>>]

\* the chat request of step 6: the client it is sent through and the model
\* it names
ChatRequest(client, current_model) ==
    IF AVAILABLE_MODELS[current_model] = "ollama"
    THEN [client |-> <<"client", "http://localhost:11434/v1">>, model |-> "llama3.2"]
    ELSE [client |-> client, model |-> "gpt-4"]

\* process_query from step 5 on, mutated: a response without choices is
\* requested a second time
Dispatch_retrying(m, current_model, relevant_data, entries, response) ==
    LET client == get_client(m, "")
        request == ChatRequest(client, current_model)
        exit(ret, trace, requests) ==
            [ret |-> ret, trace |-> <<"query_data", "context">> \o trace,
             entries |-> entries, requests |-> requests]
    IN IF client = None
       THEN exit(<<"message", "Error: AI model not available. Please try again later.">>,
                 <<"get_client">>, <<>>)
       ELSE IF current_model \notin DOMAIN AVAILABLE_MODELS
       THEN exit(<<"message", "Error: Model configuration not found.">>,
                 <<"get_client">>, <<>>)
       ELSE IF response[1] = "raise"
       THEN exit(<<"message", "I encountered an error while processing your question. Please try again or rephrase your question.">>,
                 <<"get_client", "chat">>, <<request>>)
       ELSE IF response[1] = "no_choices"
       THEN exit(<<"message", "I received an invalid response. Please try again.">>,
                 <<"get_client", "chat", "chat">>, <<request, request>>)
       ELSE IF ~_validate_response(response[2], relevant_data)
       THEN exit(<<"message", "I apologize, but I may have generated incorrect calculations. Please try rephrasing your question.">>,
                 <<"get_client", "chat", "validate">>, <<request>>)
       ELSE exit(<<"answer", response[2]>>, <<"get_client", "chat", "validate">>, <<request>>)

\* process_query from step 5 on, given the context entries
Dispatch(m, current_model, relevant_data, entries, response) ==
    LET client == get_client(m, "")
        request == ChatRequest(client, current_model)
        exit(ret, trace, requests) ==
            [ret |-> ret, trace |-> <<"query_data", "context">> \o trace,
             entries |-> entries, requests |-> requests]
    IN IF client = None
       THEN exit(<<"message", "Error: AI model not available. Please try again later.">>,
                 <<"get_client">>, <<>>)
       ELSE IF current_model \notin DOMAIN AVAILABLE_MODELS
       THEN exit(<<"message", "Error: Model configuration not found.">>,
                 <<"get_client">>, <<>>)
       ELSE IF response[1] = "raise"
       THEN exit(<<"message", "I encountered an error while processing your question. Please try again or rephrase your question.">>,
                 <<"get_client", "chat">>, <<request>>)
       ELSE IF response[1] = "no_choices"
       THEN exit(<<"message", "I received an invalid response. Please try again.">>,
                 <<"get_client", "chat">>, <<request>>)
       ELSE IF ~_validate_response(response[2], relevant_data)
       THEN exit(<<"message", "I apologize, but I may have generated incorrect calculations. Please try rephrasing your question.">>,
                 <<"get_client", "chat", "validate">>, <<request>>)
       ELSE exit(<<"answer", response[2]>>, <<"get_client", "chat", "validate">>, <<request>>)

\* the check for empty results, mutated: never taken
IsEmptyResult_never(relevant_data) == FALSE

\* not relevant_data["documents"] or not relevant_data["documents"][0]
IsEmptyResult(relevant_data) ==
    Len(relevant_data.documents) = 0 \/ Len(relevant_data.documents[1]) = 0

\* ConversationHandler.process_query(query): the value returned, the steps
\* taken in order (query_data, context, get_client, chat, validate), the
\* context entries built and the chat requests issued, given what collection.query does
\* (outcome) and what the backend answers (response)
process_query(m, current_model, outcome, response) ==
    LET relevant_data == query_data(outcome)
        stop(text) == [ret |-> <<"message", text>>, trace |-> <<"query_data">>,
                       entries |-> <<>>, requests |-> <<>>]
    IN IF DOMAIN relevant_data = {} THEN stop("I'm having trouble accessing the data. Please try again.")
       ELSE IF \E field \in required_fields : field \notin DOMAIN relevant_data
       THEN stop("The data structure seems incomplete. Please try a different question.")
       ELSE IF IsEmptyResult(relevant_data) THEN stop("I couldn't find any relevant data to answer your question. Please try rephrasing or ask about different aspects of the data.")
       ELSE IF Len(relevant_data.metadatas) = 0 THEN stop("I encountered an error while processing your question. Please try again or rephrase your question.")
       ELSE IF Len(relevant_data.documents[1]) # Len(relevant_data.metadatas[1])
       THEN stop("There seems to be a data inconsistency. Please try again.")
       ELSE LET entries == ContextEntries(relevant_data.documents[1],
                                          relevant_data.metadatas[1]) IN
            IF entries = <<>>
            THEN [stop("I couldn't process the data properly. Please try a different question.")
                    EXCEPT !.trace = <<"query_data", "context">>]
            ELSE Dispatch(m, current_model, relevant_data, entries, response)

(***************************************************************************)
(* The answers and the retrieved data the numeric guard is run on            *)
(***************************************************************************)
MaxAnswerLen == 4

AnswerChars == {"1", ".", ",", "$", "%", "x"}

\* every text over AnswerChars of length at most n
RECURSIVE TextsUpTo(_)
TextsUpTo(n) ==
    IF n = 0 THEN {<<>>}
    ELSE LET shorter == TextsUpTo(n - 1) IN
         shorter \cup {Append(t, c) : t \in {u \in shorter : Len(u) = n - 1}, c \in AnswerChars}

Txt10 == <<"1", "0", ".", "0">>
Txt1 == <<"1", ".", "0">>

\* a data frame with the single column amount
AmountFrame(values) == [cols |-> <<"amount">>, rows |-> [i \in 1..Len(values) |-> <<values[i]>>]]

\* the metadata of the rows of a frame as embed_data stores them for the
\* first file of a store
StoredMetadatas(df) ==
    LET batch == _prepare_batch_data(df, 0, Len(df.rows), IntToText(0), TxtA)
    IN [i \in 1..Len(batch) |-> batch[i].metadata]

\* the context_data dict of a retrieval with the given metadata rows
ContextData(metas) ==
    [documents |-> <<[i \in 1..Len(metas) |-> <<"doc", i>>]>>,
     metadatas |-> <<metas>>,
     distances |-> <<[i \in 1..Len(metas) |-> i]>>]

ValidationContexts ==
    { ContextData(StoredMetadatas(AmountFrame(<<Txt10>>))),
      ContextData(StoredMetadatas(AmountFrame(<<Txt10, Txt1>>))),
      ContextData(StoredMetadatas(AmountFrame(<<Txt1, Txt10>>))),
      ContextData(StoredMetadatas(AmountFrame(<<<<"1", "1", ".", "0">>, Txt1>>))),
      ContextData(<<[source_name |-> TxtA]>>),
      ContextData(<<[amount |-> Txt10], [amount |-> TxtA]>>),
      ContextData(<<>>) }

(***************************************************************************)
(* Specifications                                                           *)
(***************************************************************************)
ProcIdle == dp = DataProcessorInit /\ dpRet = <<"init", None>>
EmbIdle ==
    /\ store = EmbedderInit.store
    /\ file_metadata = EmbedderInit.file_metadata
    /\ file_hashes = EmbedderInit.file_hashes
    /\ addCalls = <<>>
    /\ embRet = <<"init", None>>

RegIdle ==
    /\ mm = ModelManagerInit([n \in DOMAIN AVAILABLE_MODELS |-> "ok"])
    /\ ch_model = ConversationHandlerInit
    /\ lastProbe = None
    /\ regRet = <<"init", "", None>>

\* initialize_session_state: the session state after a successful initialisation
SessionInit ==
    [initialized |-> TRUE, data_processors |-> {}, uploaded_files |-> {},
     current_file |-> None, messages |-> <<>>,
     last |-> [op |-> "initialize_session_state", name |-> None, loaded |-> FALSE, embedded |-> FALSE]]

ChIdle == valRet = <<"init">> /\ queryRet = [call |-> "init"] /\ session = SessionInit

notProcVars == <<embVars, regVars, chVars>>
notEmbVars == <<procVars, regVars, chVars>>
notRegVars == <<procVars, embVars, chVars>>

\* ---- DataProcessor ----
ProcInit == ProcIdle /\ EmbIdle /\ RegIdle /\ ChIdle

\* DataProcessor.load_data(file)
LoadData(file) ==
    /\ IF file.parses
       THEN /\ dp' = load_data(file)
            /\ dpRet' = <<"load_data", <<TRUE, "Data loaded successfully">>, file>>
       ELSE /\ dp' = dp
            /\ dpRet' = <<"load_data", <<FALSE, "Error loading data">>, file>>
    /\ UNCHANGED notProcVars

\* DataProcessor.get_summary_metrics()
GetSummaryMetrics ==
    /\ dpRet' = <<"get_summary_metrics", get_summary_metrics(dp)>>
    /\ UNCHANGED dp
    /\ UNCHANGED notProcVars

\* DataProcessor.prepare_data_context() once a table is loaded
PrepareDataContext ==
    /\ dp.has_df
    /\ dpRet' = <<"prepare_data_context", prepare_data_context(dp)>>
    /\ UNCHANGED dp
    /\ UNCHANGED notProcVars

\* DataProcessor.get_aggregated_data(column) once a table is loaded
GetAggregatedData(column) ==
    /\ dp.has_df
    /\ dpRet' = <<"get_aggregated_data", get_aggregated_data(dp, column), column>>
    /\ UNCHANGED dp
    /\ UNCHANGED notProcVars

ProcNext ==
    \/ \E file \in Files \cup {MalformedFile} : LoadData(file)
    \/ GetSummaryMetrics
    \/ PrepareDataContext
    \/ \E column \in {ColDate, ColAmount, ColTotalCost, ColQuantity, ColProjectId} :
          GetAggregatedData(column)

SpecProcessor == ProcInit /\ [][ProcNext]_vars

\* ---- DataEmbedder ----
EmbInit == EmbIdle /\ ProcIdle /\ RegIdle /\ ChIdle

\* DataEmbedder.embed_data(df, column_info, source_name)
EmbedData(df, source_name, failAt) ==
    LET r == embed_data(Embedder, df, source_name, failAt) IN
    /\ Cardinality(DOMAIN r.file_metadata) <= MaxFiles
    /\ store' = r.store
    /\ file_metadata' = r.file_metadata
    /\ file_hashes' = r.file_hashes
    /\ addCalls' = r.addCalls
    /\ embRet' = <<"embed_data", r.ret, df, source_name>>
    /\ UNCHANGED notEmbVars

\* DataEmbedder.clear_data()
ClearData(deleted) ==
    LET r == clear_data(Embedder, deleted) IN
    /\ store' = r.store
    /\ file_metadata' = r.file_metadata
    /\ file_hashes' = r.file_hashes
    /\ addCalls' = <<>>
    /\ embRet' = <<"clear_data", r.ret, deleted>>
    /\ UNCHANGED notEmbVars

EmbNext ==
    \/ \E df \in EmbedFrames, source_name \in SourceNames :
          \E failAt \in 0..NumBatches(df) : EmbedData(df, source_name, failAt)
    \/ \E deleted \in BOOLEAN : ClearData(deleted)

SpecEmbedder == EmbInit /\ [][EmbNext]_vars

\* ---- ModelManager and ConversationHandler.set_model ----
\* the state after app.initialize_session_state: every configured backend was
\* created and probed once
RegInit ==
    /\ \E outcome \in [DOMAIN AVAILABLE_MODELS -> ProbeOutcomes] :
          mm = ModelManagerInit(outcome)
    /\ ch_model = ConversationHandlerInit
    /\ lastProbe = None
    /\ regRet = <<"init", "", None>>
    /\ ProcIdle /\ EmbIdle /\ ChIdle

\* ModelManager.set_model(model_name)
MMSetModel(model_name, probe) ==
    LET r == mm_set_model(mm, model_name, probe) IN
    /\ mm' = [mm EXCEPT !.current_model = r.current_model]
    /\ lastProbe' = IF r.probed THEN <<model_name, probe>> ELSE None
    /\ regRet' = <<"ModelManager.set_model", model_name, r.ret>>
    /\ UNCHANGED ch_model
    /\ UNCHANGED notRegVars

\* ConversationHandler.set_model(model_name)
CHSetModel(model_name) ==
    LET r == ch_set_model(mm, ch_model, model_name) IN
    /\ ch_model' = r.current_model
    /\ lastProbe' = None
    /\ regRet' = <<"ConversationHandler.set_model", model_name, r.ret>>
    /\ UNCHANGED mm
    /\ UNCHANGED notRegVars

\* ModelManager.get_client(model_name)
GetClient(model_name) ==
    /\ regRet' = <<"get_client", model_name, get_client(mm, model_name)>>
    /\ lastProbe' = None
    /\ UNCHANGED <<mm, ch_model>>
    /\ UNCHANGED notRegVars

RegNext ==
    \/ \E model_name \in ModelNames, probe \in ProbeOutcomes : MMSetModel(model_name, probe)
    \/ \E model_name \in ModelNames : CHSetModel(model_name)
    \/ \E model_name \in ModelNames \cup {""} : GetClient(model_name)

SpecRegistry == RegInit /\ [][RegNext]_vars

\* ---- ConversationHandler._validate_response ----
\* before the call the arguments are drawn and nothing has returned (ret is
\* read only once returned is true)
ValInit ==
    /\ \E response \in TextsUpTo(MaxAnswerLen) \cup {None},
          context_data \in ValidationContexts :
          valRet = [response |-> response, context_data |-> context_data,
                    returned |-> FALSE, ret |-> FALSE]
    /\ queryRet = [call |-> "init"]
    /\ session = SessionInit
    /\ ProcIdle /\ EmbIdle /\ RegIdle

\* ConversationHandler._validate_response(response, context_data)
Validate ==
    /\ ~valRet.returned
    /\ valRet' = [valRet EXCEPT !.returned = TRUE,
                                !.ret = _validate_response(valRet.response, valRet.context_data)]
    /\ UNCHANGED <<queryRet, session, procVars, embVars, regVars>>

ValNext == Validate

SpecValidate == ValInit /\ [][ValNext]_vars

\* ---- the query path: DataEmbedder.query_data and ConversationHandler.process_query ----
\* the tables uploaded before the queries
QueryFrames ==
    { AmountFrame(<<Txt10>>), AmountFrame(<<Txt10, Txt1>>),
      UniformFrame(<<"amount">>, <<Txt10>>, DEFAULT_N_RESULTS + 1) }

\* what the backend does with a chat request: the call raises, the response
\* has no choices, or its first choice has the given content
QueryAnswers == { <<"x">>, <<"1", "1">>, <<"1", "1", "1">>, <<",", " ", "1", "1", "1">> }

BackendResponses ==
    {<<"raise", None>>, <<"no_choices", None>>} \cup
    {<<"content", content>> : content \in QueryAnswers \cup {None}}

\* the state after app.initialize_session_state and at most one upload
QueryInit ==
    /\ \E outcome \in [DOMAIN AVAILABLE_MODELS -> ProbeOutcomes] :
          mm = ModelManagerInit(outcome)
    /\ ch_model = ConversationHandlerInit
    /\ lastProbe = None
    /\ regRet = <<"init", "", None>>
    /\ \/ EmbIdle
       \/ \E df \in QueryFrames :
            LET r == embed_data(EmbedderInit, df, TxtA, 0) IN
            /\ store = r.store
            /\ file_metadata = r.file_metadata
            /\ file_hashes = r.file_hashes
            /\ addCalls = r.addCalls
            /\ embRet = <<"embed_data", r.ret, df, TxtA>>
    /\ ProcIdle /\ ChIdle

\* DataEmbedder.query_data(query_text)
QueryData(outcome) ==
    /\ queryRet' = [call |-> "query_data", outcome |-> outcome, ret |-> query_data(outcome)]
    /\ UNCHANGED <<valRet, session, procVars, embVars, regVars>>

\* ConversationHandler.process_query(query)
ProcessQuery(outcome, response) ==
    LET r == process_query(mm, ch_model, outcome, response)
    IN /\ queryRet' = [call |-> "process_query", outcome |-> outcome,
                       response |-> IF Contains(r.trace, "chat") THEN response
                                    ELSE <<"unused", None>>,
                       data |-> query_data(outcome),
                       ret |-> r.ret, trace |-> r.trace, entries |-> r.entries,
                       requests |-> r.requests]
       /\ UNCHANGED <<valRet, session, procVars, embVars, regVars>>

QueryNext ==
    \/ \E outcome \in QueryOutcomes(StoreRankings(Embedder)) : QueryData(outcome)
    \/ \E outcome \in QueryOutcomes(StoreRankings(Embedder)), response \in BackendResponses :
          ProcessQuery(outcome, response)
    \/ \E model_name \in ModelNames : CHSetModel(model_name)

SpecQuery == QueryInit /\ [][QueryNext]_vars

\* ---- DataEmbedder over a store that outlives it ----
\* DataEmbedder.__init__ in a new session of the app: the collection of the
\* persistent directory is opened as it is, the two tracking dicts are empty
NewDataEmbedder ==
    /\ store' = store
    /\ file_metadata' = EmbedderInit.file_metadata
    /\ file_hashes' = EmbedderInit.file_hashes
    /\ addCalls' = <<>>
    /\ embRet' = <<"init", None>>
    /\ UNCHANGED notEmbVars

RestartNext ==
    \/ \E df \in QueryFrames, source_name \in SourceNames :
          \E failAt \in 0..NumBatches(df) : EmbedData(df, source_name, failAt)
    \/ \E deleted \in BOOLEAN : ClearData(deleted)
    \/ NewDataEmbedder

SpecRestart == EmbInit /\ [][RestartNext]_vars


(***************************************************************************)
(* app: the session state over script runs, uploads, resets and chat        *)
(***************************************************************************)
MaxMessages == 2

TxtB == <<"b", ".", "c", "s", "v">>

UploadNames == {TxtA, TxtB}

UploadFrames == {AmountFrame(<<Txt10>>)}

\* app.initialize_session_state(), which main() calls at the start of every
\* script run: constructed is whether DataEmbedder() returned; when it raises,
\* initialized and data_processors are the only entries assigned
InitializeSessionState(constructed, outcome) ==
    IF constructed
    THEN /\ session' = SessionInit
         /\ store' = store
         /\ file_metadata' = EmbedderInit.file_metadata
         /\ file_hashes' = EmbedderInit.file_hashes
         /\ addCalls' = <<>>
         /\ embRet' = <<"init", None>>
         /\ mm' = ModelManagerInit(outcome)
         /\ ch_model' = ConversationHandlerInit
         /\ lastProbe' = None
         /\ regRet' = <<"init", "", None>>
         /\ UNCHANGED <<procVars, valRet, queryRet>>
    ELSE /\ session' = [session EXCEPT !.initialized = FALSE, !.data_processors = {},
                                       !.last = SessionInit.last]
         /\ UNCHANGED <<procVars, embVars, regVars, valRet, queryRet>>

\* app.process_uploaded_file(uploaded_file), mutated: the name is recorded as
\* uploaded whatever embed_data returned
ProcessUploadedFile_unchecked(name, loaded, df, failAt) ==
    LET r == embed_data(Embedder, df, name, failAt) IN
    /\ session.initialized
    /\ name \notin session.data_processors
    /\ IF loaded
       THEN /\ session' = [session EXCEPT
                   !.data_processors = @ \cup {name},
                   !.uploaded_files = @ \cup {name},
                   !.current_file = name,
                   !.last = [op |-> "process_uploaded_file", name |-> name,
                             loaded |-> TRUE, embedded |-> r.ret]]
            /\ store' = r.store
            /\ file_metadata' = r.file_metadata
            /\ file_hashes' = r.file_hashes
            /\ addCalls' = r.addCalls
            /\ embRet' = <<"embed_data", r.ret, df, name>>
       ELSE /\ session' = [session EXCEPT
                   !.last = [op |-> "process_uploaded_file", name |-> name,
                             loaded |-> FALSE, embedded |-> FALSE]]
            /\ UNCHANGED embVars
    /\ UNCHANGED <<procVars, regVars, valRet, queryRet>>

\* the upload loop of main() for one file of the uploader, and
\* app.process_uploaded_file(uploaded_file): loaded is what load_data reported
\* for the file, df the frame it read, failAt the add call of embed_data that raises
ProcessUploadedFile(name, loaded, df, failAt) ==
    LET r == embed_data(Embedder, df, name, failAt) IN
    /\ session.initialized
    /\ name \notin session.data_processors
    /\ IF loaded
       THEN /\ session' = [session EXCEPT
                   !.data_processors = @ \cup {name},
                   !.uploaded_files = IF r.ret THEN @ \cup {name} ELSE @,
                   !.current_file = IF r.ret THEN name ELSE @,
                   !.last = [op |-> "process_uploaded_file", name |-> name,
                             loaded |-> TRUE, embedded |-> r.ret]]
            /\ store' = r.store
            /\ file_metadata' = r.file_metadata
            /\ file_hashes' = r.file_hashes
            /\ addCalls' = r.addCalls
            /\ embRet' = <<"embed_data", r.ret, df, name>>
       ELSE /\ session' = [session EXCEPT
                   !.last = [op |-> "process_uploaded_file", name |-> name,
                             loaded |-> FALSE, embedded |-> FALSE]]
            /\ UNCHANGED embVars
    /\ UNCHANGED <<procVars, regVars, valRet, queryRet>>

\* the Reset Database button of main(): the value clear_data returns is not read
ResetDatabase(deleted) ==
    LET r == clear_data(Embedder, deleted) IN
    /\ session.initialized
    /\ store' = r.store
    /\ file_metadata' = r.file_metadata
    /\ file_hashes' = r.file_hashes
    /\ addCalls' = <<>>
    /\ embRet' = <<"clear_data", r.ret, deleted>>
    /\ session' = [session EXCEPT
            !.uploaded_files = {}, !.data_processors = {}, !.messages = <<>>,
            !.current_file = None,
            !.last = [op |-> "reset", name |-> None, loaded |-> FALSE, embedded |-> FALSE]]
    /\ UNCHANGED <<procVars, regVars, valRet, queryRet>>

\* the chat input of main(): the prompt and then the answer, or the apology
\* when process_query raises, are appended to messages
ChatInput ==
    /\ session.initialized
    /\ Len(session.messages) + 2 <= MaxMessages
    /\ session' = [session EXCEPT
            !.messages = @ \o <<"user", "assistant">>,
            !.last = [op |-> "chat_input", name |-> None, loaded |-> FALSE, embedded |-> FALSE]]
    /\ UNCHANGED <<procVars, embVars, regVars, valRet, queryRet>>

AppNext ==
    \/ \E constructed \in BOOLEAN, outcome \in [DOMAIN AVAILABLE_MODELS -> ProbeOutcomes] :
          InitializeSessionState(constructed, outcome)
    \/ \E name \in UploadNames, loaded \in BOOLEAN, df \in UploadFrames :
          \E failAt \in 0..NumBatches(df) : ProcessUploadedFile(name, loaded, df, failAt)
    \/ \E deleted \in BOOLEAN : ResetDatabase(deleted)
    \/ ChatInput

SpecApp == RegInit /\ [][AppNext]_vars

(***************************************************************************)
(* Properties                                                               *)
(***************************************************************************)

\* ---- C2: project-level aggregation in get_summary_metrics ----

\* reference statistics, by row sets instead of by series
RowIdx(df) == 1..Len(df.rows)
ValueAt(df, r, col) ==
    IF Column(df, col)[r][1] = "num" THEN Column(df, col)[r][2] ELSE 0
RECURSIVE SumOver(_, _, _)
SumOver(df, rs, col) ==
    IF rs = {} THEN 0
    ELSE LET r == CHOOSE x \in rs : TRUE IN ValueAt(df, r, col) + SumOver(df, rs \ {r}, col)
Projects(df) == {Column(df, ColProjectId)[r] : r \in RowIdx(df)} \ {NaN}
ProjectSum(df, p, col) ==
    SumOver(df, {r \in RowIdx(df) : Column(df, ColProjectId)[r] = p}, col)
RECURSIVE TotalOfProjects(_, _, _)
TotalOfProjects(df, ps, col) ==
    IF ps = {} THEN 0
    ELSE LET p == CHOOSE x \in ps : TRUE IN
         ProjectSum(df, p, col) + TotalOfProjects(df, ps \ {p}, col)
\* the four statistics over a non-empty set of integers vs with sum total over n items
RefStats(total, n, vs) ==
    [total |-> <<"f", total, 1>>,
     average |-> IF n = 0 THEN FNaN ELSE Float(total, n),
     max |-> IF vs = {} THEN FNaN ELSE <<"f", CHOOSE v \in vs : \A w \in vs : w <= v, 1>>,
     min |-> IF vs = {} THEN FNaN ELSE <<"f", CHOOSE v \in vs : \A w \in vs : v <= w, 1>>]
ProjectLevelStats(df, col) ==
    RefStats(TotalOfProjects(df, Projects(df), col), Cardinality(Projects(df)),
             {ProjectSum(df, p, col) : p \in Projects(df)})
RawRowStats(df, col) ==
    LET rs == {r \in RowIdx(df) : Column(df, col)[r][1] = "num"} IN
    RefStats(SumOver(df, rs, col), Cardinality(rs), {ValueAt(df, r, col) : r \in rs})
MetricsAgree(m, col, ref) ==
    /\ m[<<"total", col>>] = ref.total
    /\ m[<<"average", col>>] = ref.average
    /\ m[<<"max", col>>] = ref.max
    /\ m[<<"min", col>>] = ref.min

\* C2: for every numeric column with a monetary name (amount, Total_Cost),
\* whenever the table has a project_id column the total, average, max and min
\* of get_summary_metrics are those of the per-project sums of the column;
\* without a project_id column, and for the other numeric columns, they are
\* those of the raw rows.
C2_ProjectLevelAggregation ==
    dpRet[1] = "get_summary_metrics" /\ dp.has_df =>
        \A i \in 1..Len(dp.numeric_columns) :
            LET col == dp.numeric_columns[i] IN
            MetricsAgree(dpRet[2], col,
                IF col \in {ColAmount, ColTotalCost} /\ HasColumn(dp.df, ColProjectId)
                THEN ProjectLevelStats(dp.df, col)
                ELSE RawRowStats(dp.df, col))

\* C2 witness: rows (100, P1), (50, P1) give average 150 over one project, and
\* 75 is not reported
C2_Witness ==
    /\ dpRet[1] = "get_summary_metrics"
    /\ dp.has_df
    /\ HasColumn(dp.df, ColProjectId)
    /\ Len(dp.df.rows) = 2
    /\ Contains(dp.numeric_columns, ColAmount)
    /\ Column(dp.df, ColAmount) = <<Num(100), Num(50)>>
    /\ Column(dp.df, ColProjectId) = <<Str("P1"), Str("P1")>>
    /\ dpRet[2][<<"average", ColAmount>>] = <<"f", 150, 1>>
    /\ dpRet[2][<<"total", ColAmount>>] = <<"f", 150, 1>>


\* ---- C1: idempotent re-embed ----

\* the source name embed_data uses when called with source_name in the current state
NameUsed(source_name) ==
    EffectiveSourceName(source_name, IntToText(Cardinality(DOMAIN file_metadata)))

\* embed_data has embedded df under the name: the hash it recorded for the
\* name is the hash of df
AlreadyEmbedded(df, source_name) ==
    /\ NameUsed(source_name) \in DOMAIN file_hashes
    /\ file_hashes[NameUsed(source_name)] = _calculate_file_hash(df)

RecordsOf(records, source_name) ==
    {r \in records : r.metadata.source_name = source_name}

\* C1: an embed_data call with a frame and source name already embedded (same
\* content, same name, no clear_data in between) returns True, sends no batch
\* to the collection and leaves the stored records, file_metadata and
\* file_hashes unchanged.
C1_IdempotentReEmbed ==
    [][\A df \in EmbedFrames, source_name \in SourceNames :
          (AlreadyEmbedded(df, source_name)
             /\ embRet'[1] = "embed_data" /\ embRet'[3] = df /\ embRet'[4] = source_name)
          => /\ embRet'[2] = TRUE
             /\ addCalls' = <<>>
             /\ store' = store
             /\ Cardinality(store') = Cardinality(store)
             /\ file_metadata' = file_metadata
             /\ file_hashes' = file_hashes]_vars

\* C1 witness: a two-row frame embedded under a.csv was embedded again; the
\* second call returned True without an add call and the store holds the two
\* records of the first call
C1_Witness ==
    /\ embRet[1] = "embed_data"
    /\ embRet[2] = TRUE
    /\ embRet[4] = TxtA
    /\ Len(embRet[3].rows) = 2
    /\ addCalls = <<>>
    /\ Cardinality(DOMAIN file_metadata) = 1
    /\ Cardinality(RecordsOf(store, TxtA)) = 2


\* ---- C8: switching to an unconfigured backend ----

IsSetModel(ret) == ret[1] \in {"ModelManager.set_model", "ConversationHandler.set_model"}

\* C8: set_model(name) of ModelManager and of ConversationHandler, for a name
\* that is not a configured backend, returns (False, "Model <name> not
\* available") and leaves the active backend of both objects as it was.
C8_UnconfiguredSwitch ==
    [][\A name \in ModelNames \ DOMAIN AVAILABLE_MODELS :
          (IsSetModel(regRet') /\ regRet'[2] = name)
          => /\ regRet'[3] = <<FALSE, <<"Model ", name, " not available">>>>
             /\ mm'.current_model = mm.current_model
             /\ ch_model' = ch_model]_vars

\* C8 witness: with the local backend active in the registry, set_model of the
\* unconfigured name was refused and the local backend is still active
C8_Witness ==
    /\ regRet = <<"ModelManager.set_model", UnknownModel,
                  <<FALSE, <<"Model ", UnknownModel, " not available">>>>>>
    /\ mm.current_model = LocalLlama

\* ---- C9: probe-guarded switch ----

\* C9: the active backend (of the registry, of the conversation handler)
\* changes to a name only in an operation that probed that name afresh with
\* success; a set_model of a configured name whose construction-time probe
\* failed or whose fresh probe did not succeed returns (False, message) and
\* leaves the active backend unchanged.
C9_ProbeGuardedSwitch ==
    [][/\ mm'.current_model # mm.current_model => lastProbe' = <<mm'.current_model, "ok">>
       /\ ch_model' # ch_model => lastProbe' = <<ch_model', "ok">>
       /\ \A name \in DOMAIN AVAILABLE_MODELS :
            (IsSetModel(regRet') /\ regRet'[2] = name
               /\ (name \notin get_available_models(mm) \/ lastProbe' # <<name, "ok">>))
            => /\ regRet'[3][1] = FALSE
               /\ mm'.current_model = mm.current_model
               /\ ch_model' = ch_model]_vars

\* ---- C10: client lookup with fallback ----

HasClient(m, name) == name \in DOMAIN m.clients /\ m.clients[name] # None

\* C10: get_client(name), name defaulting to the registry's active backend,
\* returns the requested backend's client when it has one, otherwise the
\* client of the fallback backend OpenAI GPT-4 when that has one, and None
\* exactly when neither has a client; it changes no registry state.
C10_ClientLookup ==
    [][regRet'[1] = "get_client" =>
        LET requested == IF regRet'[2] = "" THEN mm.current_model ELSE regRet'[2]
            client == regRet'[3]
        IN /\ HasClient(mm, requested) => client = Client(requested)
           /\ ~HasClient(mm, requested) /\ HasClient(mm, OpenAIGPT4)
                => client = Client(OpenAIGPT4)
           /\ client = None <=> ~HasClient(mm, requested) /\ ~HasClient(mm, OpenAIGPT4)
           /\ mm' = mm
           /\ ch_model' = ch_model]_vars

\* C10 witness: the local backend has no client, the fallback has one, and
\* get_client("Local Llama3.2") returned the fallback's client
C10_Witness ==
    /\ regRet = <<"get_client", LocalLlama, Client(OpenAIGPT4)>>
    /\ ~HasClient(mm, LocalLlama)


\* ---- the numeric guard ----
\* every number a metadata value of the retrieved rows coerces to
AllContextNumbers(context_data) ==
    LET metas == IF Len(context_data.metadatas) = 0 THEN <<>> ELSE context_data.metadatas[1]
    IN {ContextNumber(metas[i][k]) : <<i, k>> \in
            {<<i, k>> \in (1..Len(metas)) \X UNION {DOMAIN metas[j] : j \in 1..Len(metas)} :
                k \in DOMAIN metas[i]}} \ {ParseError}

\* the monetary-looking and percentage-looking tokens of an answer
NumericTokens(response) ==
    IF response = None THEN <<>>
    ELSE LET m == FindMonetary(response, 1) IN
         [i \in 1..Len(m) |-> Remove(m[i], ",")] \o FindPercent(response, 1)

\* the numeric claims of an answer: the values of its tokens that are numbers
NumericClaims(response) ==
    LET tokens == NumericTokens(response) IN
    {ParseFloat(tokens[i]) : i \in 1..Len(tokens)} \ {ParseError}

\* some claim of the answer is greater than 1.10 x the largest number of the
\* retrieved metadata
ExceedsBound(response, context_data) ==
    \E claim \in NumericClaims(response) :
        ExceedsMargin(claim, MaxNumber(AllContextNumbers(context_data)))

\* C4: with M the largest numeric value of the retrieved metadata,
\* _validate_response rejects an answer exactly when one of its numeric
\* claims is strictly greater than 1.10 x M; an answer whose largest claim
\* is exactly 1.10 x M is accepted
C4_ValidationBoundary ==
    (/\ valRet.returned
     /\ AllContextNumbers(valRet.context_data) # {}
     /\ NumericClaims(valRet.response) # {})
        => (valRet.ret <=> ~ExceedsBound(valRet.response, valRet.context_data))

\* C6: _validate_response returns True whenever the answer has no numeric
\* token, whenever no value of the retrieved metadata coerces to a number,
\* and whenever the check fails internally (the answer is no text, a token
\* is no number)
C6_AcceptsWhenNothingToCompare ==
    (/\ valRet.returned
     /\ \/ NumericTokens(valRet.response) = <<>>
        \/ AllContextNumbers(valRet.context_data) = {}
        \/ valRet.response = None
        \/ \E i \in 1..Len(NumericTokens(valRet.response)) :
              ParseFloat(NumericTokens(valRet.response)[i]) = ParseError)
        => valRet.ret

\* an answer with a claim, retrieved metadata with no number: accepted
C6_Witness ==
    /\ valRet.returned
    /\ NumericClaims(valRet.response) # {}
    /\ Len(valRet.context_data.metadatas[1]) > 0
    /\ AllContextNumbers(valRet.context_data) = {}
    /\ valRet.ret


\* ---- the query path ----
\* the three lists of a result have the same length at index 0
EqualLengths(result) ==
    /\ Len(result.documents[1]) = Len(result.metadatas[1])
    /\ Len(result.metadatas[1]) = Len(result.distances[1])

\* the raw value is a dict with the three fields
HasFields(value) ==
    value[1] = "dict" /\ \A field \in {"documents", "metadatas", "distances"} : field \in DOMAIN value[2]

EmptyStructure ==
    [documents |-> <<<<>>>>, metadatas |-> <<<<>>>>, distances |-> <<<<>>>>, ids |-> <<<<>>>>]

\* C3: every value returned by query_data has documents[0], metadatas[0] and
\* distances[0] of the same length, and a raw result that lacks one of the
\* three fields or whose lists differ in length at index 0 is replaced by the
\* default empty structure
C3_QueryResultShape ==
    queryRet.call = "query_data" =>
        /\ EqualLengths(queryRet.ret)
        /\ (/\ queryRet.outcome.kind = "return"
            /\ \/ ~HasFields(queryRet.outcome.value)
               \/ ~EqualLengths(queryRet.outcome.value[2]))
              => queryRet.ret = EmptyStructure

\* C5: when the backend answered and the retrieved metadata holds a number,
\* process_query returns the rejection message if a numeric token of the
\* answer exceeds 1.10 x the largest number of the metadata, and the backend
\* text unchanged if none does
C5_NumericGuardOutcome ==
    (/\ queryRet.call = "process_query"
     /\ queryRet.response[1] = "content"
     /\ AllContextNumbers(queryRet.data) # {})
        => queryRet.ret = IF ExceedsBound(queryRet.response[2], queryRet.data)
                          THEN <<"message", "I apologize, but I may have generated incorrect calculations. Please try rephrasing your question.">>
                          ELSE <<"answer", queryRet.response[2]>>

\* the message of a process_query call begins with the given words
BeginsWithNoData(ret) ==
    /\ ret[1] = "message"
    /\ ret[2] = "I couldn't find any relevant data to answer your question. Please try rephrasing or ask about different aspects of the data."

\* C7: when the store holds no records, or query_data yields the empty
\* default result, process_query returns the "I couldn't find any relevant
\* data" message, requests no client and issues no backend request
C7_NoDataQuery ==
    (/\ queryRet.call = "process_query"
     /\ store = {} \/ queryRet.data = EmptyStructure)
        => /\ BeginsWithNoData(queryRet.ret)
           /\ ~Contains(queryRet.trace, "get_client")
           /\ ~Contains(queryRet.trace, "chat")
           /\ queryRet.requests = <<>>

\* retrieval raised over a store that holds records, and the query ended
\* with the no-data message
C7_Witness ==
    /\ queryRet.call = "process_query"
    /\ store # {}
    /\ queryRet.outcome.kind = "raise"
    /\ BeginsWithNoData(queryRet.ret)


\* ---- retrieval ----
\* collection.query did not return a dict with the three fields
RetrievalFailed(outcome) ==
    outcome.kind # "return" \/ ~HasFields(outcome.value)

\* C11: query_data returns for every behaviour of the collection; when the
\* collection attribute is missing, the call raises, or the result is no
\* dict, empty, or lacks a required field, the value returned is the empty
\* structure with documents, metadatas, distances and ids each [[]], and the
\* stored records and the hash tracking are unchanged
C11_RetrievalNeverRaises ==
    [][(queryRet'.call = "query_data" /\ queryRet' # queryRet)
        => /\ {"documents", "metadatas", "distances"} \subseteq DOMAIN queryRet'.ret
           /\ RetrievalFailed(queryRet'.outcome) => queryRet'.ret = EmptyStructure
           /\ UNCHANGED <<store, file_metadata, file_hashes>>]_vars

\* collection.query raised over a store that holds records
C11_Witness ==
    /\ queryRet.call = "query_data"
    /\ queryRet.outcome.kind = "raise"
    /\ store # {}
    /\ queryRet.ret = EmptyStructure


\* ---- the exits of process_query ----
\* the failure exit a process_query call left by, "none" when it returned the
\* answer of the backend
FailureExit(q) ==
    CASE Len(q.data.documents) = 0 \/ Len(q.data.documents[1]) = 0 -> "no data"
      [] Len(q.data.metadatas) = 0 -> "exception"
      [] Len(q.data.documents[1]) # Len(q.data.metadatas[1]) -> "length mismatch"
      [] q.entries = <<>> -> "no context entry"
      [] ~Contains(q.trace, "chat") /\ get_client(mm, "") = None -> "no client"
      [] ~Contains(q.trace, "chat") -> "no model configuration"
      [] q.response[1] = "raise" -> "exception"
      [] q.response[1] = "no_choices" -> "no choices"
      [] q.ret[1] = "message" -> "numeric rejection"
      [] OTHER -> "none"

ExitMessages ==
    [x \in {"no data", "length mismatch", "no context entry", "no client",
            "no model configuration", "no choices", "numeric rejection", "exception"} |->
        CASE x = "no data" -> "I couldn't find any relevant data to answer your question. Please try rephrasing or ask about different aspects of the data."
          [] x = "length mismatch" -> "There seems to be a data inconsistency. Please try again."
          [] x = "no context entry" -> "I couldn't process the data properly. Please try a different question."
          [] x = "no client" -> "Error: AI model not available. Please try again later."
          [] x = "no model configuration" -> "Error: Model configuration not found."
          [] x = "no choices" -> "I received an invalid response. Please try again."
          [] x = "numeric rejection" -> "I apologize, but I may have generated incorrect calculations. Please try rephrasing your question."
          [] x = "exception" -> "I encountered an error while processing your question. Please try again or rephrase your question."]

\* C12: process_query returns a string for every behaviour of the store, the
\* registry and the backend (also for a choice without content), and each
\* failure exit returns its own message, different from the message of
\* every other failure exit
C12_NeverCrashesCaller ==
    queryRet.call = "process_query" =>
        /\ queryRet.ret[1] = "message" \/ queryRet.ret[2] # None
        /\ \A x, y \in DOMAIN ExitMessages : x # y => ExitMessages[x] # ExitMessages[y]
        /\ FailureExit(queryRet) # "none"
              => queryRet.ret = <<"message", ExitMessages[FailureExit(queryRet)]>>


\* ---- C13: document count ----
\* C13: whenever embed_data returns True for a table under a source name,
\* the number of records of the store that belong to that source name equals
\* the number of rows of the table, after any sequence of earlier embed_data
\* calls on the same store
C13_DocumentCount ==
    [][(embRet'[1] = "embed_data" /\ embRet'[2] = TRUE)
        => Cardinality(RecordsOf(store', NameUsed(embRet'[4]))) = Len(embRet'[3].rows)]_vars


\* ---- C14: column classification ----
InList(list, c) == \E i \in 1..Len(list) : list[i] = c

\* the columns in cols are split between numeric_columns and
\* categorical_columns: each is in exactly one list, the lists are disjoint
\* and hold neither the date column nor a name that is no column of the table
Partitioned(p, cols) ==
    /\ \A c \in cols : c # p.date_column =>
          (InList(p.numeric_columns, c) /\ ~InList(p.categorical_columns, c))
          \/ (~InList(p.numeric_columns, c) /\ InList(p.categorical_columns, c))
    /\ \A i \in 1..Len(p.numeric_columns) : ~InList(p.categorical_columns, p.numeric_columns[i])
    /\ ~InList(p.numeric_columns, p.date_column)
    /\ ~InList(p.categorical_columns, p.date_column)
    /\ \A i \in 1..Len(p.numeric_columns) : HasColumn(p.df, p.numeric_columns[i])
    /\ \A i \in 1..Len(p.categorical_columns) : HasColumn(p.df, p.categorical_columns[i])

TableColumns(p) == {p.df.cols[i] : i \in 1..Len(p.df.cols)}

\* C14 as stated: after every successful load_data every column present in
\* the table other than the date column is in exactly one of numeric_columns
\* and categorical_columns, the lists are disjoint, and neither holds the
\* date column or a name that is no column of the table
C14_ClassificationPartition ==
    dp.has_df => Partitioned(dp, TableColumns(dp))

\* C14 amended: the same for every column other than the date column and the
\* year, month and quarter columns load_data derives from the date column
C14_ClassificationOfFileColumns ==
    dp.has_df => Partitioned(dp, TableColumns(dp) \ {ColYear, ColMonth, ColQuarter})

\* a file with a date column, a numeric and a categorical column was loaded
C14_Witness ==
    /\ dp.has_df
    /\ dpRet[1] = "load_data"
    /\ dp.date_column = ColDate
    /\ dp.numeric_columns = <<ColAmount>>
    /\ dp.categorical_columns = <<ColProjectId>>
    /\ HasColumn(dp.df, ColQuarter)
    /\ Len(dp.df.rows) = 2


\* ---- C15: clear_data ----
\* an embed_data step that was skipped: True returned for a table with rows
\* without an add call
Skipped(ret, calls) == ret[2] = TRUE /\ Len(ret[3].rows) > 0 /\ calls = <<>>

\* C15: clear_data returns True when the underlying delete succeeds, and then
\* the store holds no records and file_metadata and file_hashes are empty; it
\* returns False when the delete fails; an embed_data call is skipped only
\* for content recorded in file_hashes, so never right after a successful
\* clear, whatever was embedded before it
C15_Clear ==
    [][/\ embRet'[1] = "clear_data" =>
            /\ embRet'[2] = embRet'[3]
            /\ embRet'[2] => store' = {} /\ file_metadata' = <<>> /\ file_hashes' = <<>>
       /\ embRet'[1] = "embed_data" =>
            /\ Skipped(embRet', addCalls') => AlreadyEmbedded(embRet'[3], embRet'[4])
            /\ (embRet[1] = "clear_data" /\ embRet[2]) => ~Skipped(embRet', addCalls')]_vars

\* the underlying delete succeeded: True was returned and nothing is left
C15_Witness ==
    /\ embRet[1] = "clear_data"
    /\ embRet[3] = TRUE
    /\ embRet[2] = TRUE
    /\ store = {}
    /\ file_metadata = <<>>
    /\ file_hashes = <<>>


\* the calendar date <<y, m, d>> written as YYYY-MM-DD after "on " in a part
\* of a row document
ReadDate(part) ==
    <<DigitsValue(SubSeq(part, 4, 7)), DigitsValue(SubSeq(part, 9, 10)),
      DigitsValue(SubSeq(part, 12, 13))>>

IsDatePhrase(part) ==
    /\ Len(part) = 13
    /\ SubSeq(part, 1, 3) = <<"o", "n", " ">>
    /\ part[8] = "-" /\ part[11] = "-"
    /\ \A i \in {4, 5, 6, 7, 9, 10, 12, 13} : part[i] \in DigitChars

\* C16: every row document that embed_data stores for a row whose date
\* column holds the calendar date Y-M-D has, for that column, the phrase
\* "on YYYY-MM-DD", and the date read back from the phrase is Y-M-D
C16_DateRoundTrip ==
    [][embRet'[1] = "embed_data" =>
        \A r \in store' \ store :
            LET row == embRet'[3].rows[r.id[2] + 1] IN
            \A c \in 1..Len(row) :
                IsTimestamp(row[c]) =>
                    /\ IsDatePhrase(r.document[c])
                    /\ ReadDate(r.document[c]) = row[c][2]]_vars

\* the row dated 2024-03-15 was embedded and its document says "on 2024-03-15"
C16_Witness ==
    /\ embRet[1] = "embed_data"
    /\ embRet[2] = TRUE
    /\ Len(embRet[3].rows) = 2
    /\ IsTimestamp(embRet[3].rows[1][1])
    /\ embRet[3].rows[1][1] = Timestamp(<<2024, 3, 15>>)
    /\ \E r \in store :
          /\ r.id[2] = 0
          /\ r.document[1] = <<"o", "n", " ", "2", "0", "2", "4", "-", "0", "3", "-", "1", "5">>


\* ---- C17: dispatch and the active backend ----
\* C17: process_query returns the "AI model not available" message only
\* when neither the backend selected in the conversation handler nor the
\* fallback backend has a client; a selected backend that passed its probe
\* never makes the query fail for lack of a client
C17_DispatchUsesActiveBackend ==
    [][(queryRet'.call = "process_query" /\ queryRet' # queryRet
            /\ queryRet'.ret = <<"message", ExitMessages["no client"]>>)
        => /\ ClientsGet(mm, ch_model) = None
           /\ ClientsGet(mm, fallback_model) = None]_vars


\* ---- C18: the bound is taken over all retrieved metadata ----
\* C18: the maximum _validate_response compares with is taken over every
\* numeric value of every field of every retrieved row, so an answer each of
\* whose numeric claims equals a value present in some retrieved row is
\* never rejected
C18_BoundOverAllRows ==
    (/\ valRet.returned
     /\ NumericClaims(valRet.response) # {}
     /\ \A claim \in NumericClaims(valRet.response) :
            \E n \in AllContextNumbers(valRet.context_data) :
                ~NumLess(n, claim) /\ ~NumLess(claim, n))
        => valRet.ret


\* ---- C19: stage order of one query ----
StageOrder == <<"query_data", "context", "get_client", "chat", "validate">>

\* C19: the steps of one process_query call are an initial part of
\* query_data, context building, client lookup, chat request, validation,
\* each taken at most once and query_data always first; a chat request is
\* issued at most once and only with at least one context entry; validation
\* runs only on a response with a choice; the call ends answered (the
\* content of the first choice) or rejected exactly when validation ran, and
\* with a failure message, no later step taken, otherwise
C19_StageOrder ==
    queryRet.call = "process_query" =>
        LET q == queryRet
            rejected == <<"message", ExitMessages["numeric rejection"]>>
        IN /\ Len(q.trace) >= 1
           /\ q.trace = SubSeq(StageOrder, 1, Len(q.trace))
           /\ Len(q.requests) = (IF Contains(q.trace, "chat") THEN 1 ELSE 0)
           /\ Contains(q.trace, "chat") => q.entries # <<>>
           /\ Contains(q.trace, "validate") => q.response[1] = "content"
           /\ Contains(q.trace, "validate")
                <=> (q.ret = rejected \/ q.ret[1] = "answer")
           /\ q.ret[1] = "answer" => q.ret[2] = q.response[2]
           /\ ~Contains(q.trace, "validate") =>
                q.ret[1] = "message" /\ q.ret[2] \in {ExitMessages[x] : x \in DOMAIN ExitMessages}

\* a query that went through every stage and was answered with the backend's text
C19_Witness ==
    /\ queryRet.call = "process_query"
    /\ queryRet.trace = StageOrder
    /\ Len(queryRet.requests) = 1
    /\ queryRet.ret = <<"answer", <<"1", "1">>>>


\* ---- C20: context assembly ----
\* the retrieved pairs process_query keeps: document and metadata both non-empty
KeptPairs(docs, metas) ==
    {i \in 1..Len(docs) : docs[i] # <<>> /\ DOMAIN metas[i] # {}}

\* C20: once process_query reaches context assembly (the retrieval is not
\* empty): when documents[0] and metadatas[0] differ in length it returns the
\* data-inconsistency message and dispatches nothing; otherwise the context
\* is one entry "From <source_name>: <document>" per retrieved pair with a
\* non-empty document and non-empty metadata, in retrieval order, and when
\* there is none it returns the could-not-process message and dispatches nothing
C20_ContextAssembly ==
    (/\ queryRet.call = "process_query"
     /\ Len(queryRet.data.documents) > 0
     /\ Len(queryRet.data.metadatas) > 0
     /\ Len(queryRet.data.documents[1]) > 0)
        => LET q == queryRet
               docs == q.data.documents[1]
               metas == q.data.metadatas[1]
               kept == KeptPairs(docs, metas)
               nth(n) == CHOOSE i \in kept : Cardinality({j \in kept : j < i}) = n - 1
           IN IF Len(docs) # Len(metas)
              THEN /\ q.ret = <<"message", ExitMessages["length mismatch"]>>
                   /\ q.requests = <<>>
                   /\ ~Contains(q.trace, "get_client")
              ELSE /\ Len(q.entries) = Cardinality(kept)
                   /\ \A n \in 1..Len(q.entries) :
                        q.entries[n] =
                            <<"From ",
                              IF "source_name" \in DOMAIN metas[nth(n)]
                              THEN metas[nth(n)].source_name ELSE "unknown source",
                              ": ", docs[nth(n)]>>
                   /\ kept = {} =>
                        /\ q.ret = <<"message", ExitMessages["no context entry"]>>
                        /\ q.requests = <<>>
                        /\ ~Contains(q.trace, "get_client")

\* two pairs were retrieved, one of them was dropped, and the query was dispatched
C20_Witness ==
    /\ queryRet.call = "process_query"
    /\ Len(queryRet.data.documents) > 0
    /\ Len(queryRet.data.metadatas) > 0
    /\ Len(queryRet.data.documents[1]) = 2
    /\ Len(queryRet.data.metadatas[1]) = 2
    /\ Len(queryRet.entries) = 1
    /\ Len(queryRet.requests) = 1


\* ---- C21: the availability set ----
\* C21: get_available_models returns exactly the configured backends whose
\* probe at construction returned a response with a choice (a backend whose
\* creation or probe raised, or whose probe returned no choices, is left
\* out, whatever happened to the other backends), and no set_model or
\* get_client call changes the set
C21_AvailabilitySet ==
    /\ [](/\ \E outcome \in [DOMAIN AVAILABLE_MODELS -> ProbeOutcomes] :
                mm.clients = _initialize_clients(outcome)
          /\ \A outcome \in [DOMAIN AVAILABLE_MODELS -> ProbeOutcomes] :
                mm.clients = _initialize_clients(outcome)
                    => get_available_models(mm)
                         = {name \in DOMAIN AVAILABLE_MODELS : outcome[name] = "ok"})
    /\ [][get_available_models(mm') = get_available_models(mm)]_vars

\* one backend raised at construction, the other passed its probe and was
\* switched to, and only that one is available
C21_Witness ==
    /\ mm.clients = _initialize_clients((OpenAIGPT4 :> "raise") @@ (LocalLlama :> "ok"))
    /\ get_available_models(mm) = {LocalLlama}
    /\ mm.current_model = LocalLlama
    /\ regRet[1] = "ModelManager.set_model"


\* ---- C22: batch write failure ----
\* the ids of the records of a store
StoreIds(records) == {r.id : r \in records}

\* C22: when the add call of batch k raises, embed_data returns False, the
\* call of batch k is the last one made, and every record of the batches
\* 1..k-1 (and every record stored before the call) is in the store afterwards
C22_BatchWriteFailure ==
    [][(/\ embRet'[1] = "embed_data"
        /\ \E k \in 1..Len(addCalls') : addCalls'[k].raised)
        => LET k == CHOOSE i \in 1..Len(addCalls') : addCalls'[i].raised IN
           /\ embRet'[2] = FALSE
           /\ k = Len(addCalls')
           /\ \A i \in 1..(k - 1) :
                /\ ~addCalls'[i].raised
                /\ \A n \in 1..Len(addCalls'[i].ids) : addCalls'[i].ids[n] \in StoreIds(store')
           /\ store \subseteq store']_vars

\* the add call of the second batch of a 101-row table raised: False was
\* returned and the 100 records of the first batch are in the store
C22_Witness ==
    /\ embRet[1] = "embed_data"
    /\ embRet[2] = FALSE
    /\ Len(addCalls) = 2
    /\ addCalls[2].raised
    /\ Len(addCalls[1].ids) = batch_size
    /\ Cardinality(store) >= batch_size


\* ---- C23: sequential batching ----
\* the number of ids carried by the add calls before call k
RECURSIVE IdsBefore(_, _)
IdsBefore(calls, k) ==
    IF k <= 1 THEN 0 ELSE IdsBefore(calls, k - 1) + Len(calls[k - 1].ids)

\* the add calls carry the rows 0..count-1 once each, in ascending order, at
\* most 100 per call, and no call but the last one raised
InRowOrder(calls, count) ==
    /\ IdsBefore(calls, Len(calls) + 1) = count
    /\ \A k \in 1..Len(calls) :
         /\ Len(calls[k].ids) \in 1..100
         /\ k < Len(calls) => ~calls[k].raised
         /\ \A i \in 1..Len(calls[k].ids) :
                calls[k].ids[i][2] = IdsBefore(calls, k) + i - 1

\* ceil(n / 100)
CeilDiv100(n) == (n + 99) \div 100

\* C23: an embed_data call that is not skipped as a duplicate, on a table of
\* n rows, issues exactly ceil(n/100) add calls, one after the other in
\* ascending row order, each with at most 100 rows and every row in exactly
\* one of them; a table of 0 rows issues no add call and returns True
C23_SequentialBatching ==
    [][\A df \in EmbedFrames, source_name \in SourceNames :
          (/\ ~AlreadyEmbedded(df, source_name)
           /\ embRet'[1] = "embed_data" /\ embRet'[3] = df /\ embRet'[4] = source_name
           /\ embRet' # embRet)
          => /\ Len(addCalls') = CeilDiv100(Len(df.rows))
             /\ InRowOrder(addCalls', Len(df.rows))
             /\ Len(df.rows) = 0 => embRet'[2] = TRUE]_vars

\* C23, amended: the count ceil(n/100) and the coverage of every row are
\* those of a call in which no batch fails; a call in which batch k fails
\* issues the add calls of the batches before k, and of k when it is the add
\* call that fails, in the same order
C23_SequentialBatchingUntilFailure ==
    [][\A df \in EmbedFrames, source_name \in SourceNames :
          (/\ ~AlreadyEmbedded(df, source_name)
           /\ embRet'[1] = "embed_data" /\ embRet'[3] = df /\ embRet'[4] = source_name
           /\ embRet' # embRet)
          => /\ Len(addCalls') <= CeilDiv100(Len(df.rows))
             /\ InRowOrder(addCalls', IdsBefore(addCalls', Len(addCalls') + 1))
             /\ embRet'[2] = TRUE =>
                    /\ Len(addCalls') = CeilDiv100(Len(df.rows))
                    /\ InRowOrder(addCalls', Len(df.rows))
                    /\ addCalls' = <<>> \/ ~addCalls'[Len(addCalls')].raised
             /\ embRet'[2] = FALSE =>
                    \/ addCalls' # <<>> /\ addCalls'[Len(addCalls')].raised
                    \/ Len(addCalls') < CeilDiv100(Len(df.rows))
             /\ Len(df.rows) = 0 => addCalls' = <<>> /\ embRet'[2] = TRUE]_vars

\* a 101-row table was embedded with two add calls, of 100 rows and of 1 row
C23_Witness ==
    /\ embRet[1] = "embed_data"
    /\ embRet[2] = TRUE
    /\ Len(embRet[3].rows) = 101
    /\ Len(addCalls) = 2
    /\ Len(addCalls[1].ids) = 100
    /\ Len(addCalls[2].ids) = 1
    /\ addCalls[2].ids[1][2] = 100


\* ---- C24: records are only removed by clear ----
\* C24: every call leaves each record of the store in place, with its
\* document and metadata, unless it is a clear_data call, and a clear_data
\* call that removes a record removes them all
C24_OnlyClearRemoves ==
    [][\/ store \subseteq store'
       \/ /\ embRet'[1] = "clear_data"
          /\ store' = {}]_vars

\* a second table was embedded and the records of the first are still there
C24_Witness ==
    /\ embRet[1] = "embed_data"
    /\ Len(addCalls) >= 1
    /\ Cardinality(DOMAIN file_metadata) = 2
    /\ \E r \in store : r.id[1] = IntToText(0)
    /\ \E r \in store : r.id[1] = IntToText(1)


\* ---- C25: date-column inference ----
\* every value of column c of the file parses as a calendar date (an empty
\* field counting as no value)
ParsesAsDates(file, c) ==
    \A r \in 1..Len(file.rows) : file.rows[r][c][1] \in {"date", "nan"}

\* C25: after a successful load, date_column is None exactly when no column
\* of the file parses entirely as dates, and otherwise it is the first
\* column, in the file's column order, that does
C25_DateColumnInference ==
    (dpRet[1] = "load_data" /\ dpRet[2][1] = TRUE) =>
        LET file == dpRet[3]
            dated == {c \in 1..Len(file.cols) : ParsesAsDates(file, c)}
        IN IF dated = {} THEN dp.date_column = None
           ELSE dp.date_column = file.cols[CHOOSE c \in dated : \A d \in dated : c <= d]


\* ---- C26: the outcome of load_data ----
\* the names in a column list, each once, are columns of the file
FromFile(list, file) ==
    /\ \A i \in 1..Len(list) : Contains(file.cols, list[i])
    /\ \A i, j \in 1..Len(list) : list[i] = list[j] => i = j

\* C26: load_data returns (False, message) when the source cannot be read
\* and (True, message) otherwise; after a successful load the date column
\* and the two column lists are those of the loaded file alone, whatever the
\* processor had loaded before, and the table has the columns year, month
\* and quarter exactly when a date column was found
C26_LoadOutcome ==
    dpRet[1] = "load_data" =>
        LET file == dpRet[3] IN
        /\ dpRet[2][1] = file.parses
        /\ file.parses =>
            /\ dp.has_df
            /\ dp.date_column = None \/ Contains(file.cols, dp.date_column)
            /\ FromFile(dp.numeric_columns, file)
            /\ FromFile(dp.categorical_columns, file)
            /\ \A i \in 1..Len(file.cols) :
                  file.cols[i] = dp.date_column
                    \/ InList(dp.numeric_columns, file.cols[i])
                    \/ InList(dp.categorical_columns, file.cols[i])
            /\ \A c \in {ColYear, ColMonth, ColQuarter} :
                  HasColumn(dp.df, c) <=> dp.date_column # None

\* a file without a date column was loaded: no date column is recorded
\* and no column was derived
C26_Witness ==
    /\ dpRet[1] = "load_data"
    /\ dpRet[2][1] = TRUE
    /\ dp.date_column = None
    /\ dp.categorical_columns = <<ColProjectId, ColDate>>
    /\ dp.df.cols = <<ColProjectId, ColDate>>
    /\ Len(dp.df.rows) = 2


\* ---- C27: one aggregation rule everywhere ----
\* the numeric columns with a monetary name
MonetaryNumeric(p) ==
    {c \in {p.numeric_columns[i] : i \in 1..Len(p.numeric_columns)} :
        c \in {ColAmount, ColTotalCost}}

\* C27: for every monetary numeric column of the loaded table, the total,
\* average, max and min of prepare_data_context are total_<col>,
\* average_<col>, max_<col> and min_<col> of get_summary_metrics, and
\* get_aggregated_data(col) without grouping is the series those statistics
\* are computed from: the per-project sums when there is a project_id
\* column, the raw values otherwise
C27_OneAggregationRule ==
    /\ (dpRet[1] = "prepare_data_context") =>
          /\ DOMAIN dpRet[2].metrics = MonetaryNumeric(dp)
          /\ \A col \in MonetaryNumeric(dp) :
                MetricsAgree(get_summary_metrics(dp), col, dpRet[2].metrics[col])
    /\ (dpRet[1] = "get_aggregated_data" /\ dpRet[3] \in MonetaryNumeric(dp)) =>
          LET col == dpRet[3]
              series == dpRet[2]
              values == {series[i] : i \in 1..Len(series)}
          IN /\ MetricsAgree(get_summary_metrics(dp), col,
                    IF HasColumn(dp.df, ColProjectId)
                    THEN ProjectLevelStats(dp.df, col) ELSE RawRowStats(dp.df, col))
             /\ IF HasColumn(dp.df, ColProjectId)
                THEN /\ Len(series) = Cardinality(Projects(dp.df))
                     /\ values = {Num(ProjectSum(dp.df, p, col)) : p \in Projects(dp.df)}
                ELSE series = Column(dp.df, col)

\* two rows of one project: the context reports the total 150 of the
\* project, as the summary metrics do
C27_Witness ==
    /\ dpRet[1] = "prepare_data_context"
    /\ HasColumn(dp.df, ColProjectId)
    /\ ColAmount \in DOMAIN dpRet[2].metrics
    /\ dpRet[2].metrics[ColAmount].average = <<"f", 150, 1>>
    /\ dpRet[2].total_rows = 2


\* ---- C28: record ids are unique ----
\* C28: no add call of embed_data carries an id that a record of the store
\* already has, whatever embed_data and clear_data calls came before and
\* also when the DataEmbedder was constructed over a store holding records
C28_UniqueRecordIds ==
    [][embRet'[1] = "embed_data" =>
          \A k \in 1..Len(addCalls') : \A i \in 1..Len(addCalls'[k].ids) :
              addCalls'[k].ids[i] \notin StoreIds(store)]_vars


\* ---- C29: the active backend is available ----
\* C29: in every state after construction and any set_model calls, the
\* backend named by get_current_model, in the registry and in the
\* conversation handler, is one of get_available_models
C29_ActiveBackendAvailable ==
    /\ mm.current_model \in get_available_models(mm)
    /\ ch_model \in get_available_models(mm)


\* ---- C30: session bookkeeping of the app ----
\* C30: in an initialised session, after any uploads (loading or embedding
\* succeeding or failing), resets and chat inputs, every name in uploaded_files
\* is a key of data_processors and current_file is None or a name in
\* uploaded_files; a name enters uploaded_files only in a process_uploaded_file
\* call for that name in which load_data and embed_data both reported success;
\* and a reset leaves uploaded_files, data_processors and messages empty and
\* current_file None.
C30_SessionBookkeeping ==
    /\ [](session.initialized =>
            /\ session.uploaded_files \subseteq session.data_processors
            /\ session.current_file \in {None} \cup session.uploaded_files)
    /\ [][/\ \A name \in session'.uploaded_files \ session.uploaded_files :
                /\ session'.last = [op |-> "process_uploaded_file", name |-> name,
                                    loaded |-> TRUE, embedded |-> TRUE]
                /\ embRet'[1] = "embed_data" /\ embRet'[2] = TRUE /\ embRet'[4] = name
                /\ name \in session'.data_processors
          /\ session'.last.op = "reset" =>
                /\ session'.uploaded_files = {}
                /\ session'.data_processors = {}
                /\ session'.messages = <<>>
                /\ session'.current_file = None]_vars

\* one file loaded and embedded, then another loaded whose embedding failed:
\* the second is a key of data_processors only, the first stays the current file
C30_Witness ==
    /\ session.initialized
    /\ session.last = [op |-> "process_uploaded_file", name |-> TxtB,
                       loaded |-> TRUE, embedded |-> FALSE]
    /\ session.uploaded_files = {TxtA}
    /\ session.data_processors = {TxtA, TxtB}
    /\ session.current_file = TxtA
    /\ session.messages # <<>>

====
